---- MODULE Spec2Model ----
(***************************************************************************)
(* Model of basalt's pane-coordination state machine (app.rs) and of the   *)
(* node-scoped document editor (note_editor/state.rs).                     *)
(*                                                                         *)
(* Text is a sequence of characters over a four-letter alphabet: "a" is    *)
(* any ordinary printable character, "#" the heading marker, " " white     *)
(* space and "\n" the line feed.  Byte offsets are 0-based as in the       *)
(* source; Slice(s, a, b) is the Rust slice s[a..b].                       *)
(*                                                                         *)
(* Spec follows App::run of app.rs: one key press, one update.  SpecChain  *)
(* follows the editor pane's update of note_editor.rs, which returns a     *)
(* follow-up message, under a loop that applies follow-ups until none is   *)
(* returned.  SpecEditor follows the editor's messages through App::update *)
(* from an open note, for every document up to a length and with the       *)
(* cursor on any block, the buffer untouched or edited.  SpecCommand       *)
(* follows run_command of command.rs for every command template and every  *)
(* vault name, note name and note path up to a length.  SpecStartup        *)
(* follows App::start: a key binding is read from the configuration        *)
(* (config/key_binding.rs, command.rs), and the loop is entered when the   *)
(* load succeeds.                                                          *)
(***************************************************************************)
EXTENDS Integers, Sequences, FiniteSets, TLC

\* ------------------------------------------------------------------ bounds
MaxVaults == 1
NumNotes == 2
MaxLen == 9
MaxBuf == 4
MaxKeys == 9

\* ----------------------------------------------------------------- strings
None == "None"
NL == "\n"

Min(a, b) == IF a < b THEN a ELSE b
Max(a, b) == IF a > b THEN a ELSE b

\* usize::saturating_sub
SatSub(a, b) == IF a > b THEN a - b ELSE 0

\* &s[a..b]
Slice(s, a, b) == SubSeq(s, a + 1, b)

\* &s[a..]
SliceFrom(s, a) == SubSeq(s, a + 1, Len(s))

IsWhitespace(c) == c \in {" ", NL}

\* str::trim().is_empty()
IsBlank(s) == \A i \in 1..Len(s) : IsWhitespace(s[i])

\* End (exclusive) of the line that starts at offset p, its line feed excluded.
RECURSIVE LineStop(_, _)
LineStop(s, p) ==
    IF p >= Len(s) \/ s[p + 1] = NL THEN p ELSE LineStop(s, p + 1)

\* str::lines(): the lines of s without their line feeds; a final line feed
\* does not open a further line.
RECURSIVE LinesFrom(_, _)
LinesFrom(s, p) ==
    IF p >= Len(s) THEN <<>>
    ELSE LET e == LineStop(s, p)
         IN  <<Slice(s, p, e)>> \o LinesFrom(s, e + 1)

Lines(s) == LinesFrom(s, 0)

\* [str]::join("\n")
RECURSIVE JoinNL(_)
JoinNL(parts) ==
    IF Len(parts) = 0 THEN <<>>
    ELSE IF Len(parts) = 1 THEN parts[1]
    ELSE parts[1] \o <<NL>> \o JoinNL(Tail(parts))

\* ------------------------------------------------------------------ parser
\* markdown_parser::from_str: the blocks of a text in source order, each with
\* its kind and its byte range.  A line that starts with "#" is a heading, a
\* maximal run of other non-blank lines is a paragraph, blank lines separate
\* blocks and belong to none.  A block's range runs to the end of its last
\* line, the line feed included.
Node(kind, start, end) == [kind |-> kind, start |-> start, end |-> end]

LineKind(s, p) ==
    LET e == LineStop(s, p)
    IN  IF IsBlank(Slice(s, p, e)) THEN "Blank"
        ELSE IF s[p + 1] = "#" THEN "Heading"
        ELSE "Text"

RECURSIVE ParseFrom(_, _, _)
ParseFrom(s, p, open) ==
    LET closed == IF open >= 0 THEN <<Node("Paragraph", open, p)>> ELSE <<>>
    IN  IF p >= Len(s) THEN closed
        ELSE LET e == Min(LineStop(s, p) + 1, Len(s))
                 k == LineKind(s, p)
             IN  IF k = "Blank" THEN closed \o ParseFrom(s, e, -1)
                 ELSE IF k = "Heading"
                      THEN closed \o <<Node("Heading", p, e)>> \o ParseFrom(s, e, -1)
                 ELSE ParseFrom(s, e, IF open >= 0 THEN open ELSE p)

from_str(s) == ParseFrom(s, 0, -1)

\* ------------------------------------------------------------- text buffer
\* TextBuffer: the lines of the block under the cursor and the cursor (row, col).
TabLen == 4

LastRow(tb) == Len(tb.lines) - 1

\* TextBuffer::from(&str): a buffer always holds at least one (empty) line.
TextBufferFrom(s) ==
    [lines |-> IF Lines(s) = <<>> THEN << <<>> >> ELSE Lines(s), row |-> 0, col |-> 0]

\* TextBuffer::default()
TextBufferDefault == TextBufferFrom(<<>>)

\* TextBuffer::with_cursor_position: jump to (row, col), clamped to the text.
with_cursor_position(tb, row, col) ==
    LET r == Min(row, LastRow(tb))
    IN  [tb EXCEPT !.row = r, !.col = Min(col, Len(tb.lines[r + 1]))]

\* TextBuffer::to_string
to_string(tb) == JoinNL(tb.lines)

\* TextBuffer::cursor_move(Up | Down | Top | Bottom)
cursor_move(tb, move) ==
    LET r == CASE move = "Up" -> SatSub(tb.row, 1)
               [] move = "Down" -> Min(tb.row + 1, LastRow(tb))
               [] move = "Top" -> 0
               [] move = "Bottom" -> LastRow(tb)
    IN  with_cursor_position(tb, r, tb.col)

InsertAt(line, col, chars) == SubSeq(line, 1, col) \o chars \o SubSeq(line, col + 1, Len(line))

Spaces(n) == [i \in 1..n |-> " "]

\* The printable keys of the key sample; each inserts an ordinary character.
PrintableKeys == {"q", "?", "i", "t", "g", "shift+r"}

\* TextBuffer::edit: what a raw key does to the text.  A printable key inserts
\* its character, Enter splits the line, Tab pads with spaces to the next tab
\* stop, Backspace removes the character before the cursor or joins the line
\* to the previous one; the other keys of the sample leave the text alone.
text_buffer_edit(tb, key) ==
    LET line == tb.lines[tb.row + 1]
        before == SubSeq(tb.lines, 1, tb.row)
        after == SubSeq(tb.lines, tb.row + 2, Len(tb.lines))
    IN  CASE key \in PrintableKeys ->
               [tb EXCEPT !.lines[tb.row + 1] = InsertAt(line, tb.col, <<"a">>),
                          !.col = tb.col + 1]
          [] key = "tab" ->
               LET n == TabLen - (tb.col % TabLen)
               IN  [tb EXCEPT !.lines[tb.row + 1] = InsertAt(line, tb.col, Spaces(n)),
                              !.col = tb.col + n]
          [] key = "enter" ->
               [lines |-> before \o <<SubSeq(line, 1, tb.col),
                                      SubSeq(line, tb.col + 1, Len(line))>> \o after,
                row |-> tb.row + 1, col |-> 0]
          [] key = "backspace" ->
               IF tb.col > 0
               THEN [tb EXCEPT !.lines[tb.row + 1] =
                                   SubSeq(line, 1, tb.col - 1) \o SubSeq(line, tb.col + 1, Len(line)),
                               !.col = tb.col - 1]
               ELSE IF tb.row > 0
               THEN [lines |-> SubSeq(before, 1, tb.row - 1)
                                 \o <<tb.lines[tb.row] \o line>> \o after,
                     row |-> tb.row - 1, col |-> Len(tb.lines[tb.row])]
               ELSE tb
          [] OTHER -> tb

\* ------------------------------------------------------------ editor state
\* An editor state that carries marks of earlier edits, none of which
\* EditorState::default() has.
EditorStateStale ==
    [mode |-> "Read", text_buffer |-> [lines |-> <<<<>>>>, row |-> 0, col |-> 0],
     content |-> <<>>, content_original |-> <<>>, path |-> -1, nodes |-> <<>>,
     scrollbar |-> 0, current_row |-> 1, active |-> FALSE, modified |-> TRUE,
     dirty |-> TRUE]

\* EditorState::default()
EditorStateDefault ==
    [mode |-> "Read", text_buffer |-> TextBufferDefault, content |-> <<>>,
     content_original |-> <<>>, path |-> -1, nodes |-> <<>>, scrollbar |-> 0,
     current_row |-> 0, active |-> FALSE, modified |-> FALSE, dirty |-> FALSE]

is_editing(e) == e.mode = "Edit"

set_mode(e, mode) == [e EXCEPT !.mode = mode]

set_active(e, active) == [e EXCEPT !.active = active]

set_path(e, path) == [e EXCEPT !.path = path]

set_row(e, row) == [e EXCEPT !.current_row = row]

\* self.nodes().get(self.current_row)
HasNode(e) == e.current_row < Len(e.nodes)

CurrentNode(e) == e.nodes[e.current_row + 1]

update_text_buffer(e) ==
    IF HasNode(e)
    THEN LET node == CurrentNode(e)
             node_content == Slice(e.content, node.start, node.end)
         IN  [e EXCEPT !.text_buffer =
                 with_cursor_position(TextBufferFrom(node_content),
                                      e.text_buffer.row, e.text_buffer.col)]
    ELSE e

update_text_buffer_content(e, content) ==
    LET text_buffer_content == to_string(e.text_buffer)
    IN  [e EXCEPT !.text_buffer =
            with_cursor_position(
                TextBufferFrom(content \o <<NL>> \o text_buffer_content),
                Len(Lines(content)) + 1, e.text_buffer.col)]

\* set_content that leaves the buffer as it was.
set_content_unseeded(e, content) ==
    [e EXCEPT !.nodes = from_str(content),
              !.content_original = content,
              !.content = content]

set_content(e, content) ==
    update_text_buffer([e EXCEPT !.nodes = from_str(content),
                                 !.content_original = content,
                                 !.content = content])

\* The splice that keeps the byte before the block's start.
complete_modified_content_whole_prefix(e, node) ==
    JoinNL(<<Slice(e.content, 0, node.start),
             to_string(e.text_buffer),
             SliceFrom(e.content, node.end)>>)

\* intermediate_save, the splice: the text before the block (less the byte
\* before its start), the buffer, and the text after the block, joined by
\* line feeds.
complete_modified_content(e, node) ==
    JoinNL(<<Slice(e.content, 0, SatSub(node.start, 1)),
             to_string(e.text_buffer),
             SliceFrom(e.content, node.end)>>)

\* intermediate_save, the guarded re-parse: only a text that differs replaces
\* content and nodes and refreshes the buffer.
replace_content(e, complete) ==
    IF e.content # complete
    THEN update_text_buffer([e EXCEPT !.nodes = from_str(complete),
                                      !.content = complete])
    ELSE e

\* intermediate_save, its last statement.
recompute_modified(e) == [e EXCEPT !.modified = e.content # e.content_original]

intermediate_save(e) ==
    IF HasNode(e)
    THEN recompute_modified(
             replace_content(e, complete_modified_content(e, CurrentNode(e))))
    ELSE e

exit_insert(e) == intermediate_save(e)

\* A buffer that is never taken for blank.
text_is_never_blank(e) == FALSE

\* self.text_buffer().to_string().trim().is_empty()
text_is_blank(e) == IsBlank(to_string(e.text_buffer))

\* delete_char whose merge leaves the merged block in nodes.
delete_char_keeps_block(e) ==
    LET row == e.text_buffer.row
        col == e.text_buffer.col
        current_row == e.current_row
    IN  IF row = 0 /\ col = 0 /\ IsBlank(to_string(e.text_buffer))
        THEN intermediate_save(e)
        ELSE IF row = 0 /\ col = 0 /\ current_row # 0
        THEN IF current_row < Len(e.nodes)
             THEN LET prev_node == e.nodes[current_row]
                      content == Slice(e.content, prev_node.start, prev_node.end)
                      merged == [prev_node EXCEPT !.end = e.nodes[current_row + 1].end]
                      nodes == SubSeq(e.nodes, 1, current_row - 1) \o <<merged>>
                                 \o SubSeq(e.nodes, current_row + 1, Len(e.nodes))
                  IN  [update_text_buffer_content(e, content)
                          EXCEPT !.nodes = nodes,
                                 !.current_row = SatSub(current_row, 1),
                                 !.dirty = TRUE]
             ELSE e
        ELSE [e EXCEPT !.dirty = TRUE,
                       !.text_buffer = text_buffer_edit(e.text_buffer, "backspace")]

delete_char(e) ==
    LET row == e.text_buffer.row
        col == e.text_buffer.col
        current_row == e.current_row
    IN  IF row = 0 /\ col = 0 /\ text_is_blank(e)
        THEN intermediate_save(e)
        ELSE IF row = 0 /\ col = 0 /\ current_row # 0
        THEN IF current_row < Len(e.nodes)
             THEN LET prev_node == e.nodes[current_row]
                      content == Slice(e.content, prev_node.start, prev_node.end)
                      merged == [prev_node EXCEPT !.end = e.nodes[current_row + 1].end]
                      nodes == SubSeq(e.nodes, 1, current_row - 1) \o <<merged>>
                                 \o SubSeq(e.nodes, current_row + 2, Len(e.nodes))
                  IN  [update_text_buffer_content(e, content)
                          EXCEPT !.nodes = nodes,
                                 !.current_row = SatSub(current_row, 1),
                                 !.dirty = TRUE]
             ELSE e
        ELSE [e EXCEPT !.dirty = TRUE,
                       !.text_buffer = text_buffer_edit(e.text_buffer, "backspace")]

\* EditorState::edit: dirty is raised when the key changed the text.
with_edited(e, edited) ==
    [e EXCEPT !.text_buffer = edited,
              !.dirty = e.dirty \/ edited.lines # e.text_buffer.lines]

\* edit that reconciles the block after each key.
edit_reconciles(e, key) ==
    intermediate_save(with_edited(e, text_buffer_edit(e.text_buffer, key)))

edit(e, key) == with_edited(e, text_buffer_edit(e.text_buffer, key))

\* save_if_dirty that clears dirty without reconciling the block.
save_if_dirty_drops(e) == [e EXCEPT !.dirty = FALSE]

\* cursor_up / cursor_down: a dirty buffer is reconciled before the cursor
\* leaves the block.
save_if_dirty(e) ==
    IF e.dirty THEN [intermediate_save(e) EXCEPT !.dirty = FALSE] ELSE e

\* cursor_up / cursor_down: the cursor lands on the last (first) line of the
\* block it entered.
land(e, move) == [e EXCEPT !.text_buffer = cursor_move(e.text_buffer, move)]

\* cursor_up at the first line of the buffer.
block_up(e) ==
    IF e.current_row = 0 THEN e
    ELSE land(update_text_buffer([e EXCEPT !.current_row = SatSub(e.current_row, 1)]),
              "Bottom")

cursor_up(e) ==
    IF e.text_buffer.row = 0
    THEN block_up(save_if_dirty(e))
    ELSE land(e, "Up")

\* block_down that never leaves the block.
block_down_stays(e) == e

\* cursor_down at the last line of the buffer.
block_down(e) ==
    IF e.current_row = SatSub(Len(e.nodes), 1) THEN e
    ELSE land(update_text_buffer(
                  [e EXCEPT !.current_row =
                      Min(e.current_row + 1, SatSub(Len(e.nodes), 1))]),
              "Top")

cursor_down(e) ==
    IF e.text_buffer.row < SatSub(Len(e.text_buffer.lines), 1)
    THEN land(e, "Down")
    ELSE block_down(save_if_dirty(e))

\* save that never clears modified.
save_keeps_modified(e, io) == e

\* save that clears modified whether or not the file was written.
save_clears_on_failure(e, io) ==
    IF ~e.modified THEN e ELSE [e EXCEPT !.modified = FALSE]

\* EditorState::save with save_modified_to_file: modified is cleared only when
\* the file was created and written.
save(e, io) ==
    IF ~e.modified THEN e
    ELSE IF io = "ok" THEN [e EXCEPT !.modified = FALSE]
    ELSE e

\* ------------------------------------------------------------------ vault
\* The notes of a vault and the text each file holds at start-up.
NoteIds == 0..(NumNotes - 1)

NoteText(n) ==
    CASE n = 0 -> <<"#", "a", NL, NL, "a">>
      [] n = 1 -> <<"a", NL, NL, "#", "a", NL>>
      [] OTHER -> <<"a">>

\* ---------------------------------------------------------------- messages
Msg(pane, msg) == [pane |-> pane, msg |-> msg, key |-> None]

KeyEventMsg(key) == [pane |-> "NoteEditor", msg |-> "KeyEvent", key |-> key]

NoMessage == Msg(None, None)

\* The key chords of the sample.
Keys == {"q", "?", "ctrl+g", "enter", "esc", "up", "down", "tab", "backtab",
         "backspace", "i", "t", "g", "shift+r", "ctrl+x", "ctrl+o"}

\* config::load(): the binding table of each scope (the default configuration,
\* restricted to the key sample).
Bindings(scope) ==
    CASE scope = "global" ->
             [k \in {"q", "?", "ctrl+g"} |->
                 CASE k = "q" -> Msg("App", "Quit")
                   [] k = "?" -> Msg("HelpModal", "Toggle")
                   [] k = "ctrl+g" -> Msg("VaultSelectorModal", "Toggle")]
      [] scope = "Splash" ->
             [k \in {"up", "down", "enter"} |->
                 CASE k = "up" -> Msg("Splash", "Up")
                   [] k = "down" -> Msg("Splash", "Down")
                   [] k = "enter" -> Msg("Splash", "Open")]
      [] scope = "Explorer" ->
             [k \in {"up", "down", "enter", "t", "tab", "backtab", "ctrl+o"} |->
                 CASE k = "up" -> Msg("Explorer", "Up")
                   [] k = "down" -> Msg("Explorer", "Down")
                   [] k = "enter" -> Msg("Explorer", "Open")
                   [] k = "t" -> Msg("Explorer", "Toggle")
                   [] k = "tab" -> Msg("Explorer", "SwitchPaneNext")
                   [] k = "backtab" -> Msg("Explorer", "SwitchPanePrevious")
                   [] k = "ctrl+o" -> Msg("Explorer", "ToggleOutline")]
      [] scope = "Outline" ->
             [k \in {"up", "down", "g", "t", "tab", "backtab", "ctrl+o"} |->
                 CASE k = "up" -> Msg("Outline", "Up")
                   [] k = "down" -> Msg("Outline", "Down")
                   [] k = "g" -> Msg("Outline", "Select")
                   [] k = "t" -> Msg("Outline", "ToggleExplorer")
                   [] k = "tab" -> Msg("Outline", "SwitchPaneNext")
                   [] k = "backtab" -> Msg("Outline", "SwitchPanePrevious")
                   [] k = "ctrl+o" -> Msg("Outline", "Toggle")]
      [] scope = "NoteEditor" ->
             [k \in {"up", "down", "t", "tab", "backtab", "ctrl+o", "i", "shift+r",
                     "ctrl+x", "esc"} |->
                 CASE k = "up" -> Msg("NoteEditor", "CursorUp")
                   [] k = "down" -> Msg("NoteEditor", "CursorDown")
                   [] k = "t" -> Msg("NoteEditor", "ToggleExplorer")
                   [] k = "tab" -> Msg("NoteEditor", "SwitchPaneNext")
                   [] k = "backtab" -> Msg("NoteEditor", "SwitchPanePrevious")
                   [] k = "ctrl+o" -> Msg("NoteEditor", "ToggleOutline")
                   [] k = "i" -> Msg("NoteEditor", "EditMode")
                   [] k = "shift+r" -> Msg("NoteEditor", "ReadMode")
                   [] k = "ctrl+x" -> Msg("NoteEditor", "Save")
                   [] k = "esc" -> Msg("NoteEditor", "ExitMode")]
      [] scope = "HelpModal" ->
             [k \in {"esc"} |-> Msg("HelpModal", "Close")]
      [] scope = "VaultSelectorModal" ->
             [k \in {"up", "down", "enter", "esc"} |->
                 CASE k = "up" -> Msg("VaultSelectorModal", "Up")
                   [] k = "down" -> Msg("VaultSelectorModal", "Down")
                   [] k = "enter" -> Msg("VaultSelectorModal", "Select")
                   [] k = "esc" -> Msg("VaultSelectorModal", "Close")]

\* KeyBindings::key_to_message: the message a scope binds to a key, if any.
key_to_message(scope, key) ==
    IF key \in DOMAIN Bindings(scope) THEN Bindings(scope)[key] ELSE NoMessage

\* ------------------------------------------------------------- pane states
\* VaultSelectorState: the vaults on offer, the list cursor and the selection.
VaultSelectorStateNew(items, visible) ==
    [items |-> items, index |-> 0, selected |-> -1, visible |-> visible]

VaultSelectorStateDefault == VaultSelectorStateNew(0, FALSE)

selector_previous(m) == [m EXCEPT !.index = SatSub(m.index, 1)]

selector_next(m) == [m EXCEPT !.index = Min(m.index + 1, SatSub(m.items, 1))]

selector_select(m) == [m EXCEPT !.selected = m.index]

\* selected().and_then(|index| get_item(index)): the chosen vault, or -1.
selector_item(m) == IF m.selected >= 0 /\ m.selected < m.items THEN m.selected ELSE -1

\* ExplorerState
ExplorerStateDefault ==
    [vault |-> -1, open |-> FALSE, active |-> FALSE, index |-> 0, selected_note |-> -1]

ExplorerStateNew(vault) == [ExplorerStateDefault EXCEPT !.vault = vault, !.open = TRUE]

ExplorerItems(x) == IF x.vault >= 0 THEN NumNotes ELSE 0

explorer_previous(x, n) == [x EXCEPT !.index = SatSub(x.index, n)]

explorer_next(x, n) == [x EXCEPT !.index = Min(x.index + n, SatSub(ExplorerItems(x), 1))]

explorer_select(x) ==
    IF x.index < ExplorerItems(x) THEN [x EXCEPT !.selected_note = x.index] ELSE x

explorer_toggle(x) == [x EXCEPT !.open = ~x.open]

\* OutlineState: one entry per heading, with the range of node indices from the
\* heading to the next heading.
RECURSIVE NextHeading(_, _)
NextHeading(nodes, i) ==
    IF i > Len(nodes) \/ nodes[i].kind = "Heading" THEN i ELSE NextHeading(nodes, i + 1)

RECURSIVE OutlineItemsFrom(_, _)
OutlineItemsFrom(nodes, i) ==
    IF i > Len(nodes) THEN <<>>
    ELSE IF nodes[i].kind = "Heading"
    THEN <<[start |-> i - 1, end |-> NextHeading(nodes, i + 1) - 1]>>
             \o OutlineItemsFrom(nodes, i + 1)
    ELSE OutlineItemsFrom(nodes, i + 1)

OutlineItems(nodes) == OutlineItemsFrom(nodes, 1)

\* The entry whose range holds the node index, or -1.
FindItem(items, index) ==
    LET hits == {i \in 1..Len(items) : items[i].start <= index /\ index < items[i].end}
    IN  IF hits = {} THEN -1 ELSE (CHOOSE i \in hits : TRUE) - 1

OutlineStateDefault == [items |-> <<>>, selected |-> -1, open |-> FALSE, active |-> FALSE]

OutlineStateNew(nodes, index, open) ==
    [items |-> OutlineItems(nodes), selected |-> FindItem(OutlineItems(nodes), index),
     open |-> open, active |-> FALSE]

outline_select_at(o, index) == [o EXCEPT !.selected = FindItem(o.items, index)]

outline_set_nodes(o, nodes) ==
    LET items == OutlineItems(nodes)
    IN  [o EXCEPT !.items = items,
                  !.selected = IF o.selected < Len(items) THEN o.selected ELSE -1]

outline_previous(o, n) ==
    IF Len(o.items) = 0 THEN o ELSE [o EXCEPT !.selected = SatSub(Max(o.selected, 0), n)]

outline_next(o, n) ==
    IF Len(o.items) = 0 THEN o
    ELSE [o EXCEPT !.selected = Min(o.selected + n, Len(o.items) - 1)]

outline_toggle(o) == [o EXCEPT !.open = ~o.open]

\* outline.selected().map(|item| item.get_range().start).unwrap_or_default()
outline_selected_start(o) ==
    IF o.selected >= 0 /\ o.selected < Len(o.items) THEN o.items[o.selected + 1].start ELSE 0

\* --------------------------------------------------------------- app state
VARIABLES
    state,                \* AppState, the aggregate root owned by App
    disk,                 \* the text of each note's file
    experimental_editor,  \* Config::experimental_editor
    last_msg,             \* the message applied by the latest update
    keys_read,            \* the number of key presses read so far
    pending,              \* the follow-up message the latest update returned
    phase,                \* where the program stands: "start", "new", "aborted", or in
                          \* the loop at "draw", "render", "read" or "update"
    command,              \* the command template being run, its inputs and its expansion
    config                \* the key binding read at start-up and what loading made of it

vars == <<state, disk, experimental_editor, last_msg, keys_read, pending, phase, command,
          config>>

\* No program was started.
NoRun == [called |-> FALSE, program |-> <<>>, arg |-> <<>>]

\* No command is being run.
NoCommand ==
    [template |-> <<>>, vault_name |-> <<>>, note_name |-> <<>>, note_path |-> <<>>,
     expanded |-> <<>>, ran |-> NoRun, started |-> FALSE, restored |-> FALSE]

\* No binding was read: the built-in configuration is in force.
NoConfig == [key |-> <<>>, command |-> <<>>, loaded |-> "default"]

NoSelectedNote == [name |-> -1, content |-> <<>>]

\* AppState::default()
AppStateDefault ==
    [is_running |-> FALSE,
     active_pane |-> "Splash",
     explorer |-> ExplorerStateDefault,
     note_editor |-> EditorStateDefault,
     outline |-> OutlineStateDefault,
     selected_note |-> NoSelectedNote,
     splash_modal |-> VaultSelectorStateDefault,
     help_modal |-> [visible |-> FALSE],
     vault_selector_modal |-> VaultSelectorStateDefault]

\* App::start and the first statement of App::run, for a given number of vaults.
AppStateStart(vaults) ==
    [AppStateDefault EXCEPT !.is_running = TRUE,
                            !.vault_selector_modal = VaultSelectorStateNew(vaults, FALSE),
                            !.splash_modal = VaultSelectorStateNew(vaults, TRUE)]

\* active_component with the vault selector ranked above the help modal.
active_component_selector_first(st) ==
    IF st.vault_selector_modal.visible THEN "VaultSelectorModal"
    ELSE IF st.help_modal.visible THEN "HelpModal"
    ELSE IF st.splash_modal.visible THEN "Splash"
    ELSE st.active_pane

active_component(st) ==
    IF st.help_modal.visible THEN "HelpModal"
    ELSE IF st.vault_selector_modal.visible THEN "VaultSelectorModal"
    ELSE IF st.splash_modal.visible THEN "Splash"
    ELSE st.active_pane

set_running(st, is_running) == [st EXCEPT !.is_running = is_running]

\* handle_editing_event looking the key up in the NoteEditor table, as the
\* resolver does outside Edit mode: an unbound key is dropped.
handle_editing_event_table(key) == key_to_message("NoteEditor", key)

\* note_editor::handle_editing_event
handle_editing_event(key) ==
    CASE key = "up" -> Msg("NoteEditor", "CursorUp")
      [] key = "down" -> Msg("NoteEditor", "CursorDown")
      [] key = "esc" -> Msg("NoteEditor", "ExitMode")
      [] key = "backspace" -> Msg("NoteEditor", "Delete")
      [] OTHER -> KeyEventMsg(key)

\* handle_active_component_event resolving in the scope of the stored
\* active_pane, whatever modal is visible.
handle_active_component_event_pane(st, key, component) ==
    IF st.active_pane = "NoteEditor" /\ is_editing(st.note_editor)
    THEN handle_editing_event(key)
    ELSE key_to_message(st.active_pane, key)

handle_active_component_event(st, key, component) ==
    IF component = "NoteEditor"
    THEN IF is_editing(st.note_editor)
         THEN handle_editing_event(key)
         ELSE key_to_message("NoteEditor", key)
    ELSE key_to_message(component, key)

\* handle_key_event letting a global binding win in Edit mode too.
handle_key_event_global_always(st, key) ==
    IF key_to_message("global", key) # NoMessage
    THEN key_to_message("global", key)
    ELSE handle_active_component_event(st, key, active_component(st))

handle_key_event(st, key) ==
    LET global_message == key_to_message("global", key)
    IN  IF global_message # NoMessage /\ ~is_editing(st.note_editor)
        THEN global_message
        ELSE handle_active_component_event(st, key, active_component(st))

\* SelectedNote::from(Note): the note with the text read from its file, or with
\* no text when the read fails.
SelectedNoteFrom(note, io, files) ==
    [name |-> note, content |-> IF io = "ok" THEN files[note] ELSE <<>>]

with_content(selected_note, content) ==
    IF selected_note.name >= 0 THEN [selected_note EXCEPT !.content = content]
    ELSE selected_note

\* help_modal::update and the HelpModal arm of App::update
update_help_modal(st, m) ==
    CASE m = "Toggle" -> [st EXCEPT !.help_modal.visible = ~st.help_modal.visible]
      [] m = "Close" -> [st EXCEPT !.help_modal.visible = FALSE]
      [] OTHER -> st

\* vault_selector_modal::update
vault_selector_modal_update(m, modal) ==
    CASE m = "Up" -> selector_previous(modal)
      [] m = "Down" -> selector_next(modal)
      [] m = "Toggle" -> [modal EXCEPT !.visible = ~modal.visible]
      [] m = "Select" -> selector_select(modal)
      [] m = "Close" -> [modal EXCEPT !.visible = FALSE]

\* The VaultSelectorModal arm of App::update
update_vault_selector_modal(st, m) ==
    LET vault_selector_modal == vault_selector_modal_update(m, st.vault_selector_modal)
    IN  IF m = "Select"
        THEN IF selector_item(vault_selector_modal) >= 0
             THEN [AppStateDefault EXCEPT
                      !.active_pane = "Explorer",
                      !.explorer = set_active(
                          ExplorerStateNew(selector_item(vault_selector_modal)), TRUE)]
             ELSE st
        ELSE [st EXCEPT !.vault_selector_modal = vault_selector_modal]

\* splash::update
splash_update(m, modal) ==
    CASE m = "Up" -> selector_previous(modal)
      [] m = "Down" -> selector_next(modal)
      [] m = "Open" -> selector_select(modal)

\* The Splash arm, with the splash left as it is when a vault is opened.
update_splash_stays(st, m) ==
    LET splash_modal == splash_update(m, st.splash_modal)
    IN  IF m = "Open" /\ selector_item(splash_modal) >= 0
        THEN [st EXCEPT
                 !.active_pane = "Explorer",
                 !.explorer = set_active(
                     ExplorerStateNew(selector_item(splash_modal)), TRUE),
                 !.splash_modal = splash_modal]
        ELSE [st EXCEPT !.splash_modal = splash_modal]

\* The Splash arm of App::update
update_splash(st, m) ==
    LET splash_modal == splash_update(m, st.splash_modal)
    IN  IF m = "Open"
        THEN IF selector_item(splash_modal) >= 0
             THEN [st EXCEPT
                      !.active_pane = "Explorer",
                      !.explorer = set_active(
                          ExplorerStateNew(selector_item(splash_modal)), TRUE),
                      !.splash_modal = VaultSelectorStateDefault]
             ELSE st
        ELSE [st EXCEPT !.splash_modal = splash_modal]

\* explorer::update, with the focus flag left alone when the pane is left.
explorer_update_keeps_focus(m, x) ==
    CASE m = "Up" -> explorer_previous(x, 1)
      [] m = "Down" -> explorer_next(x, 1)
      [] m = "Open" -> explorer_select(x)
      [] m = "Toggle" -> explorer_toggle(x)
      [] OTHER -> x

\* explorer::update
explorer_update(m, x) ==
    CASE m = "Up" -> explorer_previous(x, 1)
      [] m = "Down" -> explorer_next(x, 1)
      [] m = "Open" -> explorer_select(x)
      [] m = "Toggle" -> explorer_toggle(x)
      [] m \in {"SwitchPaneNext", "SwitchPanePrevious"} -> set_active(x, ~x.active)
      [] OTHER -> x

\* The Explorer arm of App::update
update_explorer(st, m, io, files) ==
    LET explorer == explorer_update(m, st.explorer)
    IN  CASE m = "SwitchPaneNext" ->
               [st EXCEPT !.active_pane = "NoteEditor",
                          !.note_editor = set_active(st.note_editor, TRUE),
                          !.explorer = explorer]
          [] m = "SwitchPanePrevious" ->
               [st EXCEPT !.active_pane = "Outline",
                          !.outline = set_active(st.outline, TRUE),
                          !.explorer = explorer]
          [] m = "Toggle" ->
               IF explorer.open
               THEN [st EXCEPT !.explorer = explorer]
               ELSE [st EXCEPT !.active_pane = "NoteEditor",
                               !.explorer = set_active(explorer, FALSE),
                               !.note_editor = set_active(st.note_editor, TRUE)]
          [] m = "ToggleOutline" ->
               [st EXCEPT !.outline = outline_toggle(st.outline)]
          [] m = "Open" ->
               LET has_note == explorer.selected_note >= 0
                   selected_note ==
                       IF has_note
                       THEN SelectedNoteFrom(explorer.selected_note, io, files)
                       ELSE NoSelectedNote
                   note_editor ==
                       IF has_note
                       THEN set_path(
                                set_content(
                                    set_mode(EditorStateDefault,
                                             IF experimental_editor
                                             THEN st.note_editor.mode
                                             ELSE "Read"),
                                    selected_note.content),
                                selected_note.name)
                       ELSE EditorStateDefault
                   outline == OutlineStateNew(note_editor.nodes, note_editor.current_row,
                                              st.outline.open)
               IN  [st EXCEPT !.explorer = explorer,
                              !.outline = outline,
                              !.note_editor = note_editor,
                              !.selected_note = selected_note]
          [] OTHER -> [st EXCEPT !.explorer = explorer]

\* outline::update
outline_update(m, o) ==
    CASE m = "Up" -> outline_previous(o, 1)
      [] m = "Down" -> outline_next(o, 1)
      [] m = "Toggle" -> outline_toggle(o)
      [] m \in {"SwitchPaneNext", "SwitchPanePrevious"} -> set_active(o, ~o.active)
      [] OTHER -> o

\* The Outline arm of App::update with the pane switches left to the pane
\* level: the outline drops its focus flag and active_pane stays.
update_outline_unfocused(st, m) == [st EXCEPT !.outline = outline_update(m, st.outline)]

\* The Outline arm of App::update
update_outline(st, m) ==
    LET outline == outline_update(m, st.outline)
    IN  CASE m = "SwitchPaneNext" ->
               [st EXCEPT !.active_pane = "Explorer",
                          !.explorer = set_active(st.explorer, TRUE),
                          !.outline = outline]
          [] m = "SwitchPanePrevious" ->
               [st EXCEPT !.active_pane = "NoteEditor",
                          !.note_editor = set_active(st.note_editor, TRUE),
                          !.outline = outline]
          [] m = "Toggle" ->
               IF outline.open
               THEN [st EXCEPT !.outline = outline]
               ELSE [st EXCEPT !.active_pane = "NoteEditor",
                               !.outline = set_active(outline, FALSE),
                               !.note_editor = set_active(st.note_editor, TRUE)]
          [] m = "Select" ->
               [st EXCEPT !.note_editor =
                   set_row(st.note_editor, outline_selected_start(outline))]
          [] OTHER -> [st EXCEPT !.outline = outline]

\* The NoteEditor arm of App::update: the arms of the experimental editor first,
\* then the arms every configuration has.
update_note_editor_common(st, m) ==
    LET mode == st.note_editor.mode
    IN  CASE m.msg = "CursorUp" ->
               LET note_editor == cursor_up(st.note_editor)
               IN  [st EXCEPT !.note_editor = note_editor,
                              !.outline = outline_select_at(st.outline, note_editor.current_row)]
          [] m.msg = "CursorDown" ->
               LET note_editor == cursor_down(st.note_editor)
               IN  [st EXCEPT !.note_editor = note_editor,
                              !.outline = outline_select_at(st.outline, note_editor.current_row)]
          [] m.msg = "ToggleExplorer" /\ mode # "Edit" ->
               IF st.explorer.open
               THEN [st EXCEPT !.explorer = explorer_toggle(st.explorer)]
               ELSE [st EXCEPT !.active_pane = "Explorer",
                               !.explorer = set_active(explorer_toggle(st.explorer), TRUE),
                               !.note_editor = set_active(st.note_editor, FALSE)]
          [] m.msg = "ToggleOutline" /\ mode # "Edit" ->
               IF st.outline.open
               THEN [st EXCEPT !.outline = outline_toggle(st.outline)]
               ELSE [st EXCEPT !.active_pane = "Outline",
                               !.outline = set_active(outline_toggle(st.outline), TRUE),
                               !.note_editor = set_active(st.note_editor, FALSE)]
          [] m.msg = "SwitchPaneNext" ->
               [st EXCEPT !.active_pane = "Outline",
                          !.note_editor = set_active(st.note_editor, FALSE),
                          !.outline = set_active(st.outline, TRUE)]
          [] m.msg = "SwitchPanePrevious" ->
               [st EXCEPT !.active_pane = "Explorer",
                          !.note_editor = set_active(st.note_editor, FALSE),
                          !.explorer = set_active(st.explorer, TRUE)]
          [] OTHER -> st

\* The arms of the experimental editor are taken whatever the configuration
\* says.
editor_always_enabled == TRUE

\* let editor_enabled = self.config.experimental_editor
editor_enabled == experimental_editor

update_note_editor(st, m, io) ==
    LET mode == st.note_editor.mode
    IN  IF ~editor_enabled THEN update_note_editor_common(st, m)
        ELSE CASE m.msg = "KeyEvent" /\ mode = "Edit" ->
                    LET note_editor == edit(st.note_editor, m.key)
                    IN  [st EXCEPT !.note_editor = note_editor,
                                   !.selected_note =
                                       with_content(st.selected_note, note_editor.content)]
               [] m.msg = "Delete" ->
                    [st EXCEPT !.note_editor = delete_char(st.note_editor)]
               [] m.msg = "EditMode" /\ mode # "Edit" ->
                    IF st.selected_note.name >= 0
                    THEN [st EXCEPT !.active_pane = "NoteEditor",
                                    !.note_editor =
                                        set_mode(set_content(st.note_editor,
                                                             st.selected_note.content),
                                                 "Edit")]
                    ELSE st
               [] m.msg = "ReadMode" /\ mode # "Read" ->
                    [st EXCEPT !.note_editor = set_mode(st.note_editor, "Read")]
               [] m.msg = "ExitMode" /\ mode = "Read" ->
                    [st EXCEPT !.note_editor = set_mode(st.note_editor, "View")]
               [] m.msg = "ExitMode" /\ mode = "Edit" ->
                    LET note_editor == exit_insert(st.note_editor)
                    IN  [st EXCEPT !.note_editor = set_mode(note_editor, "View"),
                                   !.outline = outline_set_nodes(st.outline, note_editor.nodes),
                                   !.selected_note =
                                       with_content(st.selected_note, note_editor.content)]
               [] m.msg = "Save" ->
                    LET note_editor == save(st.note_editor, io)
                    IN  [st EXCEPT !.note_editor = note_editor,
                                   !.selected_note =
                                       with_content(st.selected_note, note_editor.content)]
               [] OTHER -> update_note_editor_common(st, m)

\* App::update
update(st, m, io, files) ==
    CASE m = NoMessage -> st
      [] m.pane = "App" -> set_running(st, FALSE)
      [] m.pane = "HelpModal" -> update_help_modal(st, m.msg)
      [] m.pane = "VaultSelectorModal" -> update_vault_selector_modal(st, m.msg)
      [] m.pane = "Splash" -> update_splash(st, m.msg)
      [] m.pane = "Explorer" -> update_explorer(st, m.msg, io, files)
      [] m.pane = "Outline" -> update_outline(st, m.msg)
      [] m.pane = "NoteEditor" -> update_note_editor(st, m, io)

\* What EditorState::save leaves in the note's file: File::create empties it and
\* write_all fills it; with no path there is no file to create.
write_file(st, m, io, files) ==
    IF  /\ m = Msg("NoteEditor", "Save")
        /\ experimental_editor
        /\ st.note_editor.modified
        /\ st.note_editor.path >= 0
        /\ io # "create_failed"
    THEN [files EXCEPT ![st.note_editor.path] =
             IF io = "ok" THEN st.note_editor.content ELSE <<>>]
    ELSE files

\* ------------------------------------------------------ follow-up messages
\* What a message of the chain carries: SelectAt a row, SetActivePane a pane,
\* UpdateSelectedNoteContent a text and, optionally, the nodes.
NoArg == [row |-> 0, pane |-> None, content |-> <<>>, has_nodes |-> FALSE, nodes |-> <<>>]

AppMsg(pane, msg, key, arg) == [pane |-> pane, msg |-> msg, key |-> key, arg |-> arg]

\* Option::None
NoPending == AppMsg(None, None, None, NoArg)

\* Some(AppMessage::Outline(outline::Message::SelectAt(row)))
SelectAt(row) == AppMsg("Outline", "SelectAt", None, [NoArg EXCEPT !.row = row])

\* Some(AppMessage::SetActivePane(pane))
SetActivePane(pane) == AppMsg("App", "SetActivePane", None, [NoArg EXCEPT !.pane = pane])

\* Some(AppMessage::UpdateSelectedNoteContent((content, None)))
UpdateContent(content) ==
    AppMsg("App", "UpdateSelectedNoteContent", None, [NoArg EXCEPT !.content = content])

\* Some(AppMessage::UpdateSelectedNoteContent((content, Some(nodes))))
UpdateContentAndNodes(content, nodes) ==
    AppMsg("App", "UpdateSelectedNoteContent", None,
           [NoArg EXCEPT !.content = content, !.has_nodes = TRUE, !.nodes = nodes])

\* A cursor move that returns no follow-up.
cursor_follow_up_none(e) == NoPending

\* The follow-up of CursorUp and CursorDown: the outline re-selects the entry
\* of the row the cursor reached.
cursor_follow_up(e) == SelectAt(e.current_row)

\* note_editor::update, a result: the editor after the message and the
\* follow-up returned.
Returned(e, next) == [editor |-> e, next |-> next]

\* ExitMode in Edit mode, after the reconciliation: the editor turns to View
\* and the application is told the text and the nodes.
exited_with_follow_up(e) ==
    Returned(set_mode(e, "View"), UpdateContentAndNodes(e.content, e.nodes))

\* note_editor::update: the arms that depend on the mode.
note_editor_update_in_mode(m, e, io) ==
    IF e.mode = "Edit"
    THEN CASE m.msg = "KeyEvent" -> Returned(edit(e, m.key), UpdateContent(e.content))
           [] m.msg = "ExitMode" -> exited_with_follow_up(exit_insert(e))
           [] OTHER -> Returned(e, NoPending)
    ELSE CASE m.msg = "EditMode" -> Returned(set_mode(e, "Edit"), NoPending)
           [] m.msg = "ReadMode" -> Returned(set_mode(e, "Read"), NoPending)
           [] m.msg = "ExitMode" -> Returned(set_mode(e, "View"), NoPending)
           [] m.msg = "ToggleExplorer" ->
                  Returned(e, AppMsg("Explorer", "Toggle", None, NoArg))
           [] m.msg = "ToggleOutline" ->
                  Returned(e, AppMsg("Outline", "Toggle", None, NoArg))
           [] m.msg = "SwitchPaneNext" ->
                  Returned(set_active(e, FALSE), SetActivePane("Outline"))
           [] m.msg = "SwitchPanePrevious" ->
                  Returned(set_active(e, FALSE), SetActivePane("Explorer"))
           [] m.msg = "Save" -> Returned(save(e, io), UpdateContent(e.content))
           [] OTHER -> Returned(e, NoPending)

\* The editor after a cursor move, with the follow-up the move returns.
moved_with_follow_up(e) == Returned(e, cursor_follow_up(e))

\* note_editor::update as the editor pane defines it: the editor is changed in
\* place and a follow-up message for the application is returned.
note_editor_update(m, e, io) ==
    CASE m.msg = "Delete" -> note_editor_update_in_mode(m, delete_char(e), io)
      [] m.msg = "CursorUp" -> moved_with_follow_up(cursor_up(e))
      [] m.msg = "CursorDown" -> moved_with_follow_up(cursor_down(e))
      [] OTHER -> note_editor_update_in_mode(m, e, io)

\* ------------------------------------------------------------ transitions
\* The file-system outcomes a message can meet.
Outcomes(st, m) ==
    IF m = Msg("NoteEditor", "Save")
    THEN IF st.note_editor.path < 0 THEN {"create_failed"}
         ELSE {"ok", "create_failed", "write_failed"}
    ELSE IF m = Msg("Explorer", "Open") THEN {"ok", "read_failed"}
    ELSE {"ok"}

\* The texts stay within the bounds of the model.
WithinBounds(st, m) ==
    /\ Len(st.note_editor.content) <= MaxLen
    /\ m.msg = "KeyEvent" => Len(to_string(st.note_editor.text_buffer)) <= MaxBuf

\* One turn of the loop of App::run: a key press is read and translated by
\* handle_key_event, and update applies the message.
KeyPress(key) ==
    /\ state.is_running
    /\ keys_read < MaxKeys
    /\ LET m == handle_key_event(state, key)
       IN  /\ \E io \in Outcomes(state, m) :
                 /\ state' = update(state, m, io, disk)
                 /\ disk' = write_file(state, m, io, disk)
           /\ WithinBounds(state', m)
           /\ last_msg' = m
    /\ keys_read' = keys_read + 1
    /\ UNCHANGED <<command, config, experimental_editor, pending, phase>>

\* The pane whose message a key press yields now.
Pane(key) == handle_key_event(state, key).pane

Quit == \E key \in Keys : Pane(key) = "App" /\ KeyPress(key)

HelpModalMessage == \E key \in Keys : Pane(key) = "HelpModal" /\ KeyPress(key)

VaultSelectorModalMessage ==
    \E key \in Keys : Pane(key) = "VaultSelectorModal" /\ KeyPress(key)

SplashMessage == \E key \in Keys : Pane(key) = "Splash" /\ KeyPress(key)

ExplorerMessage == \E key \in Keys : Pane(key) = "Explorer" /\ KeyPress(key)

OutlineMessage == \E key \in Keys : Pane(key) = "Outline" /\ KeyPress(key)

NoteEditorMessage == \E key \in Keys : Pane(key) = "NoteEditor" /\ KeyPress(key)

\* A key no scope binds yields no message, and update returns the state as it is.
UnboundKey == \E key \in Keys : Pane(key) = None /\ KeyPress(key)

Init ==
    /\ \E vaults \in 0..MaxVaults : state = AppStateStart(vaults)
    /\ disk = [n \in NoteIds |-> NoteText(n)]
    /\ experimental_editor \in BOOLEAN
    /\ last_msg = NoMessage
    /\ keys_read = 0
    /\ pending = NoPending
    /\ phase = "read"
    /\ command = NoCommand
    /\ config = NoConfig

Next ==
    \/ Quit
    \/ HelpModalMessage
    \/ VaultSelectorModalMessage
    \/ SplashMessage
    \/ ExplorerMessage
    \/ OutlineMessage
    \/ NoteEditorMessage
    \/ UnboundKey

Spec == Init /\ [][Next]_vars

\* ---------------------------------------------------- the follow-up chain
MaxChainKeys == 3

\* The state in which the chain is followed: a vault is open, note n is open
\* and the editor has the focus.
ChainStart(n) ==
    LET opened == update(AppStateStart(1), Msg("Splash", "Open"), "ok", disk)
        at_note == IF n = 0 THEN opened
                   ELSE update(opened, Msg("Explorer", "Down"), "ok", disk)
        loaded == update(at_note, Msg("Explorer", "Open"), "ok", disk)
    IN  update(loaded, Msg("Explorer", "Toggle"), "ok", disk)

\* The application's side of a follow-up message.
apply_follow_up(st, m) ==
    CASE m.msg = "SelectAt" ->
             [st EXCEPT !.outline = outline_select_at(st.outline, m.arg.row)]
      [] m.msg = "SetActivePane" /\ m.arg.pane = "Outline" ->
             [st EXCEPT !.active_pane = "Outline",
                        !.outline = set_active(st.outline, TRUE)]
      [] m.msg = "SetActivePane" /\ m.arg.pane = "Explorer" ->
             [st EXCEPT !.active_pane = "Explorer",
                        !.explorer = set_active(st.explorer, TRUE)]
      [] m.msg = "UpdateSelectedNoteContent" ->
             [st EXCEPT !.selected_note = with_content(st.selected_note, m.arg.content),
                        !.outline = IF m.arg.has_nodes
                                    THEN outline_set_nodes(st.outline, m.arg.nodes)
                                    ELSE st.outline]
      [] OTHER -> st

IsFollowUp(m) == m.msg \in {"SelectAt", "SetActivePane", "UpdateSelectedNoteContent"}

\* update, a result: the state after the message and the follow-up returned.
Applied(st, next) == [state |-> st, next |-> next]

with_note_editor(st, returned) ==
    Applied([st EXCEPT !.note_editor = returned.editor], returned.next)

\* update(state, message) -> Option<Message>: one message is applied and the
\* follow-up, if any, is returned.  The editor's messages go to
\* note_editor::update; the messages of the other panes are applied as
\* App::update applies them and return no follow-up.
chain_update(st, m, io, files) ==
    IF IsFollowUp(m) THEN Applied(apply_follow_up(st, m), NoPending)
    ELSE IF m.pane = "NoteEditor"
    THEN with_note_editor(st, note_editor_update(m, st.note_editor, io))
    ELSE Applied(update(st, Msg(m.pane, m.msg), io, files), NoPending)

\* The loop draws the state; it does so only when the chain is settled.
Render ==
    /\ phase = "render"
    /\ state.is_running
    /\ phase' = "read"
    /\ UNCHANGED <<command, config, state, disk, experimental_editor, last_msg, keys_read, pending>>

\* The loop blocks for a key press and translates it into a message.
ReadEvent ==
    /\ phase = "read"
    /\ keys_read < MaxChainKeys
    /\ \E key \in Keys :
          LET m == handle_key_event(state, key)
          IN  pending' = AppMsg(m.pane, m.msg, m.key, NoArg)
    /\ phase' = "update"
    /\ keys_read' = keys_read + 1
    /\ UNCHANGED <<command, config, state, disk, experimental_editor, last_msg>>

\* The pending message, as the file system sees it.
PendingMsg == [pane |-> pending.pane, msg |-> pending.msg, key |-> pending.key]

\* One call of update: the pending message is applied and its follow-up
\* becomes the pending message.
ApplyMessage ==
    /\ phase = "update"
    /\ pending.pane # None
    /\ \E io \in Outcomes(state, PendingMsg) :
          /\ state' = chain_update(state, pending, io, disk).state
          /\ pending' = chain_update(state, pending, io, disk).next
          /\ disk' = write_file(state, PendingMsg, io, disk)
    /\ WithinBounds(state', pending)
    /\ last_msg' = PendingMsg
    /\ UNCHANGED <<command, config, experimental_editor, keys_read, phase>>

\* update returned None: the chain is settled and the loop goes on to draw.
Settle ==
    /\ phase = "update"
    /\ pending.pane = None
    /\ phase' = "render"
    /\ UNCHANGED <<command, config, state, disk, experimental_editor, last_msg, keys_read, pending>>

InitChain ==
    /\ disk = [n \in NoteIds |-> NoteText(n)]
    /\ experimental_editor = TRUE
    /\ \E n \in NoteIds : state = ChainStart(n)
    /\ last_msg = NoMessage
    /\ keys_read = 0
    /\ pending = NoPending
    /\ phase = "render"
    /\ command = NoCommand
    /\ config = NoConfig

NextChain == Render \/ ReadEvent \/ ApplyMessage \/ Settle

SpecChain == InitChain /\ [][NextChain]_vars

\* ------------------------------------------------- the editor on its own
MaxDocLen == 4
MaxTextLen == 2
MaxOps == 2

\* The texts of at most n characters over an alphabet.
TextsOver(alphabet, n) == UNION {[1..k -> alphabet] : k \in 0..n}

\* The documents a note's file may hold.
Docs == TextsOver({"a", "#", NL}, MaxDocLen)

\* The texts an edit may leave in the buffer.
BufferTexts == TextsOver({"a", NL}, MaxTextLen)

\* Every note of the vault holds the document.
FilesOf(doc) == [n \in NoteIds |-> doc]

\* The states a message leads to, from each of the states, when its
\* input/output succeeds.
Then(states, m, files) == {update(st, m, "ok", files) : st \in states}

\* A vault is open and the editor has the focus; no note is selected.
NoNoteOpen(doc) ==
    Then(Then({AppStateStart(1)}, Msg("Splash", "Open"), FilesOf(doc)),
         Msg("Explorer", "Toggle"), FilesOf(doc))

\* The first note is open with the document and the editor has the focus.
NoteOpen(doc) ==
    Then(Then(Then({AppStateStart(1)}, Msg("Splash", "Open"), FilesOf(doc)),
              Msg("Explorer", "Open"), FilesOf(doc)),
         Msg("Explorer", "Toggle"), FilesOf(doc))

\* The note is open in Edit mode.
NoteInEdit(doc) == Then(NoteOpen(doc), Msg("NoteEditor", "EditMode"), FilesOf(doc))

\* The cursor of the buffer at its start or at its end.
CursorAt(tb, at_end) ==
    IF at_end
    THEN with_cursor_position(tb, LastRow(tb), Len(tb.lines[LastRow(tb) + 1]))
    ELSE with_cursor_position(tb, 0, 0)

\* The rows the cursor can be on.
Rows(e) == IF e.nodes = <<>> THEN {0} ELSE 0..(Len(e.nodes) - 1)

\* The editor with the cursor on one of its blocks.
OnBlock(e) == {update_text_buffer(set_row(e, row)) : row \in Rows(e)}

\* The editor with the cursor of the untouched buffer at its start or end.
Untouched(e) == {[e EXCEPT !.text_buffer = CursorAt(e.text_buffer, at_end)] : at_end \in BOOLEAN}

\* The editor whose buffer an edit has left holding one of the texts.
Edited(e) ==
    {[e EXCEPT !.text_buffer = CursorAt(TextBufferFrom(text), at_end), !.dirty = TRUE] :
         text \in BufferTexts, at_end \in BOOLEAN}

\* The note in Edit mode with the cursor on a block and the buffer untouched
\* or edited.
BeingEdited(st) ==
    {[st EXCEPT !.note_editor = e] :
         e \in UNION {Untouched(on) \cup Edited(on) : on \in OnBlock(st.note_editor)}}

\* The states the editor is followed from: no note, a note just opened, a note
\* being edited.
EditorStarts(doc) ==
    NoNoteOpen(doc) \cup NoteOpen(doc) \cup UNION {BeingEdited(st) : st \in NoteInEdit(doc)}

\* The application applies one message of the editor.
EditorMessage(m) ==
    /\ \E io \in Outcomes(state, m) :
          /\ state' = update(state, m, io, disk)
          /\ disk' = write_file(state, m, io, disk)
    /\ last_msg' = m
    /\ keys_read' = keys_read + 1
    /\ UNCHANGED <<command, config, experimental_editor, pending, phase>>

EnterEdit == keys_read < MaxOps /\ EditorMessage(Msg("NoteEditor", "EditMode"))

ExitEdit == keys_read < MaxOps /\ EditorMessage(Msg("NoteEditor", "ExitMode"))

MoveUp == keys_read < MaxOps /\ EditorMessage(Msg("NoteEditor", "CursorUp"))

MoveDown == keys_read < MaxOps /\ EditorMessage(Msg("NoteEditor", "CursorDown"))

DeleteChar == keys_read < MaxOps /\ EditorMessage(Msg("NoteEditor", "Delete"))

SaveNote == keys_read < MaxOps /\ EditorMessage(Msg("NoteEditor", "Save"))

SetReadMode == keys_read < MaxOps /\ EditorMessage(Msg("NoteEditor", "ReadMode"))

InitEditor ==
    /\ experimental_editor = TRUE
    /\ \E doc \in Docs :
          /\ disk = FilesOf(doc)
          /\ state \in EditorStarts(doc)
    /\ last_msg = NoMessage
    /\ keys_read = 0
    /\ pending = NoPending
    /\ phase = "read"
    /\ command = NoCommand
    /\ config = NoConfig

NextEditor ==
    EnterEdit \/ ExitEdit \/ MoveUp \/ MoveDown \/ DeleteChar \/ SaveNote \/ SetReadMode

SpecEditor == InitEditor /\ [][NextEditor]_vars

\* ---------------------------------------------------------------- commands
\* The text of a command is a sequence of pieces: "%" the percent sign,
\* "vault", "note" and "_path" the words the placeholders are made of, "x"
\* any other run of characters, " " white space.  SpecCommand runs one
\* command template, bound with exec: or with spawn:, for every template and
\* every vault name, note name and note path up to a length.
MaxTemplateLen == 3
MaxValueLen == 2

Templates == TextsOver({"%", "vault", "note", "_path", " "}, MaxTemplateLen)
Values == TextsOver({"x", "%", "note"}, MaxValueLen)

HasPrefix(s, prefix) == Len(s) >= Len(prefix) /\ SubSeq(s, 1, Len(prefix)) = prefix

\* str::replace: every match of the variable, leftmost first and without
\* overlap, becomes the content; the content is not searched again.
RECURSIVE replace_var(_, _, _)
replace_var(s, variable, content) ==
    IF s = <<>> THEN <<>>
    ELSE IF HasPrefix(s, variable)
         THEN content \o replace_var(SliceFrom(s, Len(variable)), variable, content)
         ELSE <<Head(s)>> \o replace_var(Tail(s), variable, content)

\* str::split_whitespace
RECURSIVE split_whitespace(_)
split_whitespace(s) ==
    IF s = <<>> THEN <<>>
    ELSE IF Head(s) = " " THEN split_whitespace(Tail(s))
    ELSE LET stop == IF \E i \in 1..Len(s) : s[i] = " "
                     THEN CHOOSE i \in 1..Len(s) : s[i] = " " /\ \A j \in 1..(i - 1) : s[j] # " "
                     ELSE Len(s) + 1
         IN  <<SubSeq(s, 1, stop - 1)>> \o split_whitespace(SubSeq(s, stop, Len(s)))

\* [&str]::join(" ")
RECURSIVE join_space(_)
join_space(args) ==
    IF args = <<>> THEN <<>>
    ELSE IF Len(args) = 1 THEN args[1]
    ELSE args[1] \o <<" ">> \o join_space(Tail(args))

PlaceholderVault == <<"%", "vault">>
PlaceholderNotePath == <<"%", "note", "_path">>
PlaceholderNote == <<"%", "note">>

\* The expansion run_command passes on: the three replacements, one after
\* the other over the whole text.
expanded(template, vault_name, note_name, note_path) ==
    replace_var(replace_var(replace_var(template, PlaceholderVault, vault_name),
                            PlaceholderNotePath, note_path),
                PlaceholderNote, note_name)

\* run_command: what the callback is called with, or no call for a blank text.
run_command(template, vault_name, note_name, note_path) ==
    LET args == split_whitespace(expanded(template, vault_name, note_name, note_path))
    IN  IF args = <<>> THEN NoRun
        ELSE [called |-> TRUE, program |-> args[1], arg |-> join_space(Tail(args))]

Expand(c) ==
    [c EXCEPT !.expanded = expanded(c.template, c.vault_name, c.note_name, c.note_path),
              !.ran = run_command(c.template, c.vault_name, c.note_name, c.note_path)]

\* What can happen to the program of a command: it runs and the terminal is
\* set up again, it cannot be started, or it runs and the terminal fails.
SyncOutcomes == {"ok", "start_failed", "terminal_failed"}

\* The callback of sync_command that answers Open once the program ran,
\* whatever became of the terminal.
sync_follow_up_unrestored(called, io) ==
    IF called /\ io # "start_failed" THEN AppMsg("Explorer", "Open", None, NoArg)
    ELSE NoPending

\* The callback of sync_command: status().ok()? gives up when the program
\* cannot be started; enter_alternate_screen(..).map(Open).ok() answers Open
\* when the terminal was set up again.
sync_follow_up(called, io) ==
    IF called /\ io = "ok" THEN AppMsg("Explorer", "Open", None, NoArg)
    ELSE NoPending

\* sync_command: the program runs to its end, then the screen is entered
\* again and the explorer's Open follows; a program that cannot be started,
\* or a terminal failure, gives no follow-up.
SyncCommand ==
    /\ keys_read = 0
    /\ \E c \in {Expand(command)}, io \in SyncOutcomes :
          /\ command' = [c EXCEPT !.started = c.ran.called /\ io # "start_failed",
                                  !.restored = c.ran.called /\ io = "ok"]
          /\ pending' = sync_follow_up(c.ran.called, io)
    /\ last_msg' = Msg("Exec", None)
    /\ keys_read' = 1
    /\ UNCHANGED <<state, disk, experimental_editor, phase, config>>

\* spawn_command: the program is started and not waited for; no follow-up.
SpawnCommand ==
    /\ keys_read = 0
    /\ \E c \in {Expand(command)}, io \in {"ok", "start_failed"} :
          command' = [c EXCEPT !.started = c.ran.called /\ io = "ok"]
    /\ pending' = NoPending
    /\ last_msg' = Msg("Spawn", None)
    /\ keys_read' = 1
    /\ UNCHANGED <<state, disk, experimental_editor, phase, config>>

InitCommand ==
    /\ state = AppStateStart(1)
    /\ disk = [n \in NoteIds |-> NoteText(n)]
    /\ experimental_editor = FALSE
    /\ last_msg = NoMessage
    /\ keys_read = 0
    /\ pending = NoPending
    /\ phase = "update"
    /\ config = NoConfig
    /\ \E template \in Templates, vault_name \in Values, note_name \in Values, note_path \in Values :
          command = [NoCommand EXCEPT !.template = template, !.vault_name = vault_name,
                                      !.note_name = note_name, !.note_path = note_path]

NextCommand == SyncCommand \/ SpawnCommand

SpecCommand == InitCommand /\ [][NextCommand]_vars

\* ------------------------------------------------------------------ start-up
\* Key chords are texts, written as sequences of characters; command strings
\* are sequences of tokens, as the templates are.
MaxChordParts == 2
MaxCommandTokens == 2
MaxStartKeys == 1

UpperCase == <<"A", "B", "C", "D", "E", "F", "G", "H", "I", "J", "K", "L", "M", "N", "O", "P", "Q", "R", "S", "T", "U", "V", "W", "X", "Y", "Z">>
LowerCase == <<"a", "b", "c", "d", "e", "f", "g", "h", "i", "j", "k", "l", "m", "n", "o", "p", "q", "r", "s", "t", "u", "v", "w", "x", "y", "z">>
Digits == <<"0", "1", "2", "3", "4", "5", "6", "7", "8", "9">>

\* char::to_lowercase, on the letters of the chord sample.
lower(c) ==
    IF \E i \in 1..26 : UpperCase[i] = c
    THEN LowerCase[CHOOSE i \in 1..26 : UpperCase[i] = c]
    ELSE c

to_lowercase(s) == [i \in 1..Len(s) |-> lower(s[i])]

\* str::split: the parts between the separators; a text without a separator is
\* one part, the empty text included.
RECURSIVE split(_, _)
split(s, sep) ==
    IF \A i \in 1..Len(s) : s[i] # sep THEN <<s>>
    ELSE LET i == CHOOSE j \in 1..Len(s) : s[j] = sep /\ \A k \in 1..(j - 1) : s[k] # sep
         IN  <<SubSeq(s, 1, i - 1)>> \o split(SubSeq(s, i + 1, Len(s)), sep)

Ok(v) == [ok |-> TRUE, value |-> v]
Err(e) == [ok |-> FALSE, value |-> e]

\* parse_modifiers, with every modifier accepted.
parse_modifiers_any(modifier) == Ok(modifier)

\* parse_modifiers: the empty part stands for no modifier.
parse_modifiers(modifier) ==
    IF modifier = <<>> THEN Ok(<<>>)
    ELSE IF modifier \in {<<"a", "l", "t">>, <<"c", "t", "r", "l">>, <<"c", "o", "n", "t", "r", "o", "l">>,
                         <<"h", "y", "p", "e", "r">>, <<"m", "e", "t", "a">>, <<"s", "h", "i", "f", "t">>,
                         <<"s", "u", "p", "e", "r">>}
    THEN Ok(IF modifier = <<"c", "o", "n", "t", "r", "o", "l">> THEN <<"c", "t", "r", "l">> ELSE modifier)
    ELSE Err("UnknownKeyModifiers")

RECURSIVE DecimalValue(_)
DecimalValue(s) ==
    IF s = <<>> THEN 0
    ELSE 10 * DecimalValue(SubSeq(s, 1, Len(s) - 1))
         + (CHOOSE d \in 1..10 : Digits[d] = s[Len(s)]) - 1

\* str::parse::<u8>, on texts without a sign.
parse_u8(s) ==
    IF s # <<>> /\ (\A i \in 1..Len(s) : \E d \in 1..10 : Digits[d] = s[i])
                /\ DecimalValue(s) <= 255
    THEN Ok(DecimalValue(s))
    ELSE Err("ParseIntError")

NamedCodes ==
    {<<"e", "s", "c">>, <<"s", "p", "a", "c", "e">>,
     <<"b", "a", "c", "k", "s", "p", "a", "c", "e">>,
     <<"b", "a", "c", "k", "t", "a", "b">>, <<"d", "e", "l", "e", "t", "e">>,
     <<"d", "o", "w", "n">>, <<"e", "n", "d">>, <<"e", "n", "t", "e", "r">>,
     <<"h", "o", "m", "e">>, <<"i", "n", "s", "e", "r", "t">>, <<"l", "e", "f", "t">>,
     <<"p", "a", "g", "e", "_", "d", "o", "w", "n">>,
     <<"p", "a", "g", "e", "_", "u", "p">>, <<"r", "i", "g", "h", "t">>,
     <<"t", "a", "b">>, <<"u", "p">>}

\* parse_code, with every key code accepted.
parse_code_any(code) == Ok(code)

\* parse_code: the empty code is KeyCode::Null, one character is itself, "f"
\* and a number is a function key, and the rest is looked up by name.
parse_code(code) ==
    CASE Len(code) = 0 -> Ok(<<"Null">>)
      [] Len(code) = 1 -> Ok(code)
      [] OTHER ->
             IF Head(code) = "f" /\ parse_u8(Tail(code)).ok
             THEN Ok(<<"F", parse_u8(Tail(code)).value>>)
             ELSE IF code \in NamedCodes THEN Ok(code)
             ELSE Err("UnknownKeyCode")

\* KeyVisitor::visit_str: the chord in lower case, split at "+"; the last part is
\* the key code and the parts before it are modifiers.
visit_str(value) ==
    LET parts == split(to_lowercase(value), "+")
        code == parts[Len(parts)]
        modifiers == [i \in 1..(Len(parts) - 1) |-> parse_modifiers(parts[i])]
    IN  IF \E i \in 1..Len(modifiers) : ~modifiers[i].ok
        THEN Err("UnknownKeyModifiers")
        ELSE IF ~parse_code(code).ok THEN Err("UnknownKeyCode")
        ELSE Ok([modifiers |-> {modifiers[i].value : i \in 1..Len(modifiers)} \ {<<>>},
                 code |-> parse_code(code).value])

\* The command vocabulary, restricted to a sample.
Vocabulary == {"quit", "splash_open"}

\* str_to_command: a name of the vocabulary, and nothing around it.
str_to_command(s) ==
    IF Len(s) = 1 /\ s[1] \in Vocabulary THEN Ok(s[1]) ELSE Err("None")

\* Deserialize for Command: "exec:" and "spawn:" carry the rest as a template,
\* anything else has to be in the vocabulary.
command_deserialize(s) ==
    IF HasPrefix(s, <<"exec:">>) THEN Ok(<<"Exec", Tail(s)>>)
    ELSE IF HasPrefix(s, <<"spawn:">>) THEN Ok(<<"Spawn", Tail(s)>>)
    ELSE IF str_to_command(s).ok THEN str_to_command(s)
    ELSE Err("is not a valid command")

\* config::load(): the binding is read; an error of either field is the error of
\* the load.
config_load(c) ==
    IF visit_str(c.key).ok /\ command_deserialize(c.command).ok THEN "ok" ELSE "error"

ChordWords ==
    {<<>>, <<"c", "t", "r", "l">>, <<"C", "t", "r", "l">>, <<"a", "l", "t">>,
     <<"s", "h", "i", "f", "t">>, <<"w", "i", "n">>, <<"a">>, <<"e", "s", "c">>,
     <<"T", "a", "b">>, <<"f", "5">>, <<"f", "2", "5", "6">>, <<"f", "n">>}

RECURSIVE join_plus(_)
join_plus(parts) ==
    IF Len(parts) = 1 THEN parts[1]
    ELSE parts[1] \o <<"+">> \o join_plus(Tail(parts))

Chords ==
    {join_plus(parts) : parts \in UNION {[1..n -> ChordWords] : n \in 1..MaxChordParts}}

CommandTokens == Vocabulary \cup {"exec:", "spawn:", "exec", "x"}

CommandStrings == UNION {[1..n -> CommandTokens] : n \in 0..MaxCommandTokens}

\* App::new: the configuration is loaded and unwrapped; an error ends the
\* program before run is called.
AppNew ==
    /\ phase = "start"
    /\ config' = [config EXCEPT !.loaded = config_load(config)]
    /\ phase' = IF config_load(config) = "ok" THEN "new" ELSE "aborted"
    /\ UNCHANGED <<state, disk, experimental_editor, last_msg, keys_read, pending, command>>

\* App::run: is_running is set and the loop is entered.
Run ==
    /\ phase = "new"
    /\ state' = [state EXCEPT !.is_running = TRUE]
    /\ phase' = "draw"
    /\ UNCHANGED <<disk, experimental_editor, last_msg, keys_read, pending, command, config>>

\* The loop draws the state.
Draw ==
    /\ phase = "draw"
    /\ state.is_running
    /\ phase' = "read"
    /\ UNCHANGED <<state, disk, experimental_editor, last_msg, keys_read, pending, command,
                   config>>

\* The loop reads a key press, translates it and applies the message.
ReadAndUpdate ==
    /\ phase = "read"
    /\ keys_read < MaxStartKeys
    /\ \E key \in Keys :
          LET m == handle_key_event(state, key)
          IN  /\ \E io \in Outcomes(state, m) :
                    /\ state' = update(state, m, io, disk)
                    /\ disk' = write_file(state, m, io, disk)
              /\ last_msg' = m
    /\ keys_read' = keys_read + 1
    /\ phase' = "draw"
    /\ UNCHANGED <<experimental_editor, pending, command, config>>

InitStartup ==
    /\ \E vaults \in 0..MaxVaults :
          state = [AppStateStart(vaults) EXCEPT !.is_running = FALSE]
    /\ disk = [n \in NoteIds |-> NoteText(n)]
    /\ experimental_editor = FALSE
    /\ last_msg = NoMessage
    /\ keys_read = 0
    /\ pending = NoPending
    /\ phase = "start"
    /\ command = NoCommand
    /\ \E key \in Chords, c \in CommandStrings :
          config = [key |-> key, command |-> c, loaded |-> "unread"]

NextStartup == AppNew \/ Run \/ Draw \/ ReadAndUpdate

SpecStartup == InitStartup /\ [][NextStartup]_vars

\* ------------------------------------------------------------------ claims
Panes == {"Explorer", "NoteEditor", "Outline"}

\* The visible modal of highest rank, spelled out from the visibility flags.
VisibleModal ==
    CASE state.help_modal.visible -> "HelpModal"
      [] ~state.help_modal.visible /\ state.vault_selector_modal.visible ->
             "VaultSelectorModal"
      [] /\ ~state.help_modal.visible
         /\ ~state.vault_selector_modal.visible
         /\ state.splash_modal.visible -> "Splash"
      [] OTHER -> None

Editing == state.note_editor.mode = "Edit"

\* C1: active_component() is HelpModal when the help modal is visible,
\* otherwise VaultSelectorModal when the vault selector is visible, otherwise
\* Splash when the splash is visible, otherwise the stored active_pane.
C1_ActiveComponentPrecedence ==
    active_component(state) =
        IF VisibleModal # None THEN VisibleModal ELSE state.active_pane

\* The help modal and the vault selector are visible together.
C1_Witness ==
    /\ state.help_modal.visible
    /\ state.vault_selector_modal.visible
    /\ active_component(state) = "HelpModal"

\* C2 as stated: while a modal is visible every key resolves to what the
\* modal's own binding table gives for it, and to nothing else.
C2_ModalTableOnly ==
    VisibleModal # None =>
        \A key \in Keys : handle_key_event(state, key) = key_to_message(VisibleModal, key)

\* C2, amended: while a modal is visible a key resolves to what the modal's own
\* table gives for it, unless the global scope binds the key and the editor is
\* not in Edit mode, and then to the global message; never to a message of a
\* background pane's table.
C2_ModalOrGlobal ==
    VisibleModal # None =>
        \A key \in Keys :
            LET m == handle_key_event(state, key)
            IN  \/ m = key_to_message(VisibleModal, key)
                \/ /\ ~Editing
                   /\ key_to_message("global", key) # NoMessage
                   /\ m = key_to_message("global", key)

\* A modal covers a background pane whose table binds keys the modal's does not.
C2_Witness ==
    /\ VisibleModal = "HelpModal"
    /\ state.active_pane = "Explorer"
    /\ key_to_message("Explorer", "enter") # NoMessage
    /\ handle_key_event(state, "enter") = NoMessage

\* C3: a key the global scope binds resolves to the global message when the
\* editor is not in Edit mode; every other key, and every key in Edit mode,
\* resolves in the scope of active_component(): the component's table, or the
\* editing translation when that component is the editor in Edit mode.
C3_GlobalFirst ==
    \A key \in Keys :
        LET global_message == key_to_message("global", key)
            component == IF VisibleModal # None THEN VisibleModal ELSE state.active_pane
            scoped == IF component = "NoteEditor" /\ Editing
                      THEN CASE key = "up" -> Msg("NoteEditor", "CursorUp")
                             [] key = "down" -> Msg("NoteEditor", "CursorDown")
                             [] key = "esc" -> Msg("NoteEditor", "ExitMode")
                             [] key = "backspace" -> Msg("NoteEditor", "Delete")
                             [] OTHER -> KeyEventMsg(key)
                      ELSE key_to_message(component, key)
        IN  handle_key_event(state, key) =
                IF global_message # NoMessage /\ ~Editing THEN global_message ELSE scoped

\* In Edit mode a key of the global scope has just been resolved in the
\* editor's scope.
C3_Witness ==
    /\ Editing
    /\ last_msg = KeyEventMsg("q")
    /\ key_to_message("global", "q") = Msg("App", "Quit")

\* The message Edit mode gives for a key.
EditingMessage(key) ==
    CASE key = "up" -> Msg("NoteEditor", "CursorUp")
      [] key = "down" -> Msg("NoteEditor", "CursorDown")
      [] key = "esc" -> Msg("NoteEditor", "ExitMode")
      [] key = "backspace" -> Msg("NoteEditor", "Delete")
      [] OTHER -> [pane |-> "NoteEditor", msg |-> "KeyEvent", key |-> key]

\* C4: in Edit mode with the NoteEditor active no key is dropped: Up, Down,
\* Esc and Backspace yield CursorUp, CursorDown, ExitMode and Delete, every
\* other key yields a KeyEvent, and a KeyEvent is applied to the buffer as
\* raw input.
C4_NoKeyDropped ==
    /\ [](Editing /\ active_component(state) = "NoteEditor" =>
             \A key \in Keys :
                 /\ handle_key_event(state, key) # NoMessage
                 /\ handle_key_event(state, key) = EditingMessage(key))
    /\ [][Editing /\ active_component(state) = "NoteEditor" =>
             /\ last_msg' # NoMessage
             /\ last_msg'.msg = "KeyEvent" =>
                    state'.note_editor.text_buffer =
                        text_buffer_edit(state.note_editor.text_buffer, last_msg'.key)]_vars

\* A key the global scope binds has been typed into the buffer.
C4_Witness ==
    /\ Editing
    /\ active_component(state) = "NoteEditor"
    /\ last_msg = KeyEventMsg("?")
    /\ state.note_editor.dirty

NextPane(p) ==
    CASE p = "Explorer" -> "NoteEditor"
      [] p = "NoteEditor" -> "Outline"
      [] p = "Outline" -> "Explorer"

PreviousPane(p) ==
    CASE p = "Explorer" -> "Outline"
      [] p = "NoteEditor" -> "Explorer"
      [] p = "Outline" -> "NoteEditor"

\* The state after the active pane issues a pane switch.
Switch(st, msg) == update(st, Msg(st.active_pane, msg), "ok", disk)

\* C5: with no modal visible and the editor not in Edit mode, SwitchPaneNext
\* issued by the active pane moves active_pane along Explorer -> NoteEditor ->
\* Outline -> Explorer and SwitchPanePrevious along the reverse cycle; three
\* of either return to the starting pane and a Next followed by a Previous
\* restores it.
C5_PaneCycle ==
    VisibleModal = None /\ ~Editing /\ state.active_pane \in Panes =>
        LET p == state.active_pane
            n1 == Switch(state, "SwitchPaneNext")
            n2 == Switch(n1, "SwitchPaneNext")
            n3 == Switch(n2, "SwitchPaneNext")
            p1 == Switch(state, "SwitchPanePrevious")
            p2 == Switch(p1, "SwitchPanePrevious")
            p3 == Switch(p2, "SwitchPanePrevious")
        IN  /\ n1.active_pane = NextPane(p)
            /\ p1.active_pane = PreviousPane(p)
            /\ n3.active_pane = p
            /\ p3.active_pane = p
            /\ Switch(n1, "SwitchPanePrevious").active_pane = p

\* The outline has just taken the focus from the editor by SwitchPaneNext.
C5_Witness ==
    /\ VisibleModal = None
    /\ ~Editing
    /\ last_msg = Msg("NoteEditor", "SwitchPaneNext")
    /\ state.active_pane = "Outline"
    /\ Switch(state, "SwitchPaneNext").active_pane = "Explorer"

\* C7: the loop stops exactly on Quit: Quit clears is_running and changes
\* nothing else, and every other message leaves is_running true.
C7_StopsExactlyOnQuit ==
    [][IF last_msg' = Msg("App", "Quit")
       THEN state' = [state EXCEPT !.is_running = FALSE]
       ELSE state'.is_running]_vars

\* C8: whenever nodes is non-empty, 0 <= current_row < nodes.len().
C8_RowWithinNodes ==
    Len(state.note_editor.nodes) > 0 =>
        /\ 0 <= state.note_editor.current_row
        /\ state.note_editor.current_row < Len(state.note_editor.nodes)

\* C9: in View or Read mode nodes is the parser's output on content.
C9_NodesAreParseOfContent ==
    state.note_editor.mode \in {"View", "Read"} =>
        state.note_editor.nodes = from_str(state.note_editor.content)

\* C10: modified is true exactly when content differs from content_original.
C10_ModifiedIffDiffers ==
    state.note_editor.modified <=>
        state.note_editor.content # state.note_editor.content_original

Applies(msg) == keys_read' = keys_read + 1 /\ last_msg' = Msg("NoteEditor", msg)

\* The source text of the block the cursor is on.
BlockText(e) == Slice(e.content, CurrentNode(e).start, CurrentNode(e).end)

\* A text without its final line feed.
WithoutFinalNL(s) ==
    IF Len(s) > 0 /\ s[Len(s)] = NL THEN SubSeq(s, 1, Len(s) - 1) ELSE s

\* EditMode turns the mode to Edit only with a note selected and changes
\* nothing without one.
EditNeedsNote ==
    /\ state.selected_note.name < 0 => state' = state
    /\ state'.note_editor.mode = "Edit" /\ state.note_editor.mode # "Edit"
           => state.selected_note.name >= 0

Spliced(e) ==
    Slice(e.content, 0, SatSub(CurrentNode(e).start, 1)) \o <<NL>>
        \o to_string(e.text_buffer) \o <<NL>> \o SliceFrom(e.content, CurrentNode(e).end)

\* C12: ExitMode applied in Edit mode reconciles before leaving: right after
\* it the mode is View, content holds the text of the buffer in place of the
\* block that was edited, nodes is the parse of that content and modified tells
\* whether content differs from content_original.
C12_ExitReconciles ==
    [][Applies("ExitMode") /\ state.note_editor.mode = "Edit"
           /\ HasNode(state.note_editor)
           => /\ state'.note_editor.mode = "View"
              /\ state'.note_editor.content = Spliced(state.note_editor)
              /\ state'.note_editor.nodes = from_str(state'.note_editor.content)
              /\ state'.note_editor.modified
                     = (state'.note_editor.content # state'.note_editor.content_original)]_vars

\* The step reconciles the current block: ExitMode in Edit mode, a cursor move
\* that leaves the block with a dirty buffer, or a delete at the start of a
\* blank buffer.
Reconciles ==
    /\ HasNode(state.note_editor)
    /\ \/ Applies("ExitMode") /\ state.note_editor.mode = "Edit"
       \/ Applies("CursorUp") /\ state.note_editor.dirty /\ state.note_editor.text_buffer.row = 0
       \/ Applies("CursorDown") /\ state.note_editor.dirty
              /\ state.note_editor.text_buffer.row = LastRow(state.note_editor.text_buffer)
       \/ Applies("Delete") /\ state.note_editor.text_buffer.row = 0
              /\ state.note_editor.text_buffer.col = 0
              /\ IsBlank(to_string(state.note_editor.text_buffer))

\* C13: reconciling the block start..end with buffer text t computes
\* content' = content[..start-1] ++ "\n" ++ t ++ "\n" ++ content[end..]; if it
\* differs from content, content becomes content' and nodes its parse, else
\* both are left unchanged; modified becomes content # content_original.
C13_ReconcileSplices ==
    [][Reconciles =>
           /\ IF Spliced(state.note_editor) # state.note_editor.content
              THEN /\ state'.note_editor.content = Spliced(state.note_editor)
                   /\ state'.note_editor.nodes = from_str(Spliced(state.note_editor))
              ELSE /\ state'.note_editor.content = state.note_editor.content
                   /\ state'.note_editor.nodes = state.note_editor.nodes
           /\ state'.note_editor.modified
                  = (state'.note_editor.content # state'.note_editor.content_original)]_vars

\* ExitMode has reconciled a block other than the first and the document has
\* changed.
C13_Witness ==
    /\ last_msg = Msg("NoteEditor", "ExitMode")
    /\ keys_read = 1
    /\ state.note_editor.modified
    /\ state.note_editor.content # state.note_editor.content_original
    /\ Len(state.note_editor.nodes) > 1
    /\ state.note_editor.current_row > 0

\* C14: reconciliation is idempotent on unchanged text: for every document and
\* every block, the first and the last included, reconciling the block while
\* the buffer holds the block's current source text (its lines, as the buffer
\* is seeded) leaves content and nodes as they are.
C14_ReconcileIdempotent ==
    [][Reconciles
           /\ to_string(state.note_editor.text_buffer)
                  = WithoutFinalNL(BlockText(state.note_editor))
           => /\ state'.note_editor.content = state.note_editor.content
              /\ state'.note_editor.nodes = state.note_editor.nodes]_vars

\* The step merges the current block into the previous one: a delete at the
\* start of a buffer that is not blank, on a block that is not the first.
Merges ==
    /\ Applies("Delete")
    /\ state.note_editor.text_buffer.row = 0
    /\ state.note_editor.text_buffer.col = 0
    /\ ~IsBlank(to_string(state.note_editor.text_buffer))
    /\ state.note_editor.current_row > 0
    /\ HasNode(state.note_editor)

\* The source ranges are non-empty, lie within the text, and each ends no
\* later than the next one starts.
RangesOrdered(nodes, content) ==
    /\ \A i \in 1..Len(nodes) :
           0 <= nodes[i].start /\ nodes[i].start < nodes[i].end /\ nodes[i].end <= Len(content)
    /\ \A i \in 1..(Len(nodes) - 1) : nodes[i].end <= nodes[i + 1].start

\* The source ranges leave no byte of the text out: the first starts at 0,
\* each starts where the one before ends, the last ends with the text.
RangesCover(nodes, content) ==
    /\ nodes = <<>> => content = <<>>
    /\ nodes # <<>> => nodes[1].start = 0 /\ nodes[Len(nodes)].end = Len(content)
    /\ \A i \in 1..(Len(nodes) - 1) : nodes[i].end = nodes[i + 1].start

C16_ScenarioExact ==
    [][Applies("ExitMode")
           /\ state.note_editor.mode = "Edit"
           /\ state.note_editor.content = <<"#", "a", NL, NL, "a">>
           /\ state.note_editor.content_original = state.note_editor.content
           /\ Len(state.note_editor.nodes) = 2
           /\ state.note_editor.current_row = 1
           /\ to_string(state.note_editor.text_buffer) = <<"a", "a">>
           => /\ state'.note_editor.content = <<"#", "a", NL, NL, "a", "a">>
              /\ state'.note_editor.modified]_vars

\* C17: Delete applied with the cursor of the buffer at (row 0, col 0), the
\* buffer not blank and current_row > 0 reduces the number of nodes by exactly
\* one and current_row by exactly one.
C17_MergeRemovesOneBlock ==
    [][Applies("Delete")
           /\ state.note_editor.text_buffer.row = 0
           /\ state.note_editor.text_buffer.col = 0
           /\ ~IsBlank(to_string(state.note_editor.text_buffer))
           /\ state.note_editor.current_row > 0
           => /\ Len(state'.note_editor.nodes) = Len(state.note_editor.nodes) - 1
              /\ state'.note_editor.current_row = state.note_editor.current_row - 1]_vars

\* C18: moving the cursor past the ends of the document leaves current_row as
\* it is: CursorDown with the cursor of the buffer on the last row of the last
\* block, and CursorUp with it on row 0 of block 0, also when the same message
\* reconciles a dirty buffer.
C18_EndsKeepRow ==
    [][/\ Applies("CursorDown")
              /\ state.note_editor.text_buffer.row = LastRow(state.note_editor.text_buffer)
              /\ state.note_editor.nodes # <<>>
              /\ state.note_editor.current_row = Len(state.note_editor.nodes) - 1
              => state'.note_editor.current_row = state.note_editor.current_row
       /\ Applies("CursorUp")
              /\ state.note_editor.text_buffer.row = 0
              /\ state.note_editor.current_row = 0
              => state'.note_editor.current_row = 0]_vars

\* C18, amended: CursorUp with the cursor of the buffer on row 0 of block 0
\* leaves current_row at 0, also when it reconciles a dirty buffer. CursorDown
\* with it on the last row of the last block leaves current_row as it is when
\* the buffer is not dirty or the reconciliation keeps the number of blocks;
\* when the reconciliation changes the number of blocks, current_row becomes
\* the smaller of current_row + 1 and the index of the new last block.
C18_EndsKeepRowOrClamp ==
    [][/\ Applies("CursorDown")
              /\ state.note_editor.text_buffer.row = LastRow(state.note_editor.text_buffer)
              /\ state.note_editor.nodes # <<>>
              /\ state.note_editor.current_row = Len(state.note_editor.nodes) - 1
              => IF  \/ ~state.note_editor.dirty
                     \/ Len(state'.note_editor.nodes) = Len(state.note_editor.nodes)
                 THEN state'.note_editor.current_row = state.note_editor.current_row
                 ELSE state'.note_editor.current_row
                          = Min(state.note_editor.current_row + 1,
                                SatSub(Len(state'.note_editor.nodes), 1))
       /\ Applies("CursorUp")
              /\ state.note_editor.text_buffer.row = 0
              /\ state.note_editor.current_row = 0
              => state'.note_editor.current_row = 0]_vars

\* CursorDown has reconciled an edit that removed the last block, and the
\* cursor is on the block that is now the last.
C18_Witness ==
    /\ last_msg = Msg("NoteEditor", "CursorDown")
    /\ keys_read = 1
    /\ ~state.note_editor.dirty
    /\ state.note_editor.content # state.note_editor.content_original
    /\ Len(state.note_editor.nodes) + 1 = Len(from_str(state.note_editor.content_original))
    /\ state.note_editor.nodes # <<>>
    /\ state.note_editor.current_row = Len(state.note_editor.nodes) - 1

\* The file of the note the editor holds, before and after the step.
NoteFile == disk[state.note_editor.path]

NoteFileAfter == disk'[state.note_editor.path]

\* C19: Save writes content in full to the note's path if and only if modified
\* is true; after a successful write modified is false; with modified false
\* Save writes nothing and changes no state of the editor.
C19_SaveWritesIffModified ==
    [][Applies("Save") =>
           /\ ~state.note_editor.modified
                  => disk' = disk /\ state'.note_editor = state.note_editor
           /\ state.note_editor.modified
                  => \/ /\ disk' = [disk EXCEPT ![state.note_editor.path] =
                                        state.note_editor.content]
                        /\ state'.note_editor = [state.note_editor EXCEPT !.modified = FALSE]
                     \/ /\ state'.note_editor.modified
                        /\ NoteFileAfter \in {NoteFile, <<>>}]_vars

\* A modified note has been saved: the file holds content in full, which
\* differs from the text the note was opened with, and modified is false.
C19_Witness ==
    /\ last_msg = Msg("NoteEditor", "Save")
    /\ keys_read = 2
    /\ ~state.note_editor.modified
    /\ state.note_editor.content # state.note_editor.content_original
    /\ disk[state.note_editor.path] = state.note_editor.content

\* C20: a failed save does not corrupt the state in memory: when creating or
\* writing the file fails, modified stays true and content, content_original,
\* nodes, current_row and mode are unchanged, so that a later Save attempts the
\* write again.
C20_FailedSaveKeepsState ==
    [][Applies("Save") /\ state.note_editor.modified
           /\ NoteFileAfter # state.note_editor.content
           => /\ state'.note_editor.modified
              /\ state'.note_editor.content = state.note_editor.content
              /\ state'.note_editor.content_original = state.note_editor.content_original
              /\ state'.note_editor.nodes = state.note_editor.nodes
              /\ state'.note_editor.current_row = state.note_editor.current_row
              /\ state'.note_editor.mode = state.note_editor.mode]_vars

\* A save of a modified note has failed while writing: the file is empty and
\* the editor still holds the modified content.
C20_Witness ==
    /\ last_msg = Msg("NoteEditor", "Save")
    /\ keys_read = 2
    /\ state.note_editor.modified
    /\ state.note_editor.content # state.note_editor.content_original
    /\ disk[state.note_editor.path] = <<>>
    /\ state.note_editor.content_original # <<>>

\* C21: round trip: after a Save that met no input/output failure, on a note
\* whose file was read when it was opened (no note of the vault is empty), the
\* note's file read back is exactly the content of the editor, whatever
\* edits, reconciliations, mode changes and saves came before.
C21_SaveRoundTrip ==
    [][Applies("Save")
           /\ experimental_editor
           /\ state.note_editor.path >= 0
           /\ state.note_editor.content_original # <<>>
           /\ ~state'.note_editor.modified
           => disk'[state.note_editor.path] = state'.note_editor.content]_vars

\* The text with each placeholder of the template exchanged for its value,
\* read from left to right, the longer placeholder first where two begin
\* alike; the values themselves are left as they are.
RECURSIVE Substituted(_, _, _, _)
Substituted(template, vault_name, note_name, note_path) ==
    IF template = <<>> THEN <<>>
    ELSE IF HasPrefix(template, PlaceholderNotePath)
         THEN note_path \o Substituted(SliceFrom(template, 3), vault_name, note_name, note_path)
    ELSE IF HasPrefix(template, PlaceholderNote)
         THEN note_name \o Substituted(SliceFrom(template, 2), vault_name, note_name, note_path)
    ELSE IF HasPrefix(template, PlaceholderVault)
         THEN vault_name \o Substituted(SliceFrom(template, 2), vault_name, note_name, note_path)
    ELSE <<Head(template)>> \o Substituted(Tail(template), vault_name, note_name, note_path)

CommandRan == last_msg.pane \in {"Exec", "Spawn"}

\* C22: the expansion of a command template is the template with %vault,
\* %note_path and %note replaced by the vault name, the note path and the
\* note name; each %note_path of the template gives the note path, never the
\* note name followed by "_path".
C22_ExpansionSubstitutes ==
    CommandRan =>
        command.expanded = Substituted(command.template, command.vault_name,
                                       command.note_name, command.note_path)

\* The explorer's Open was applied and a note is selected.
OpensNote ==
    /\ keys_read' = keys_read + 1
    /\ last_msg' = Msg("Explorer", "Open")
    /\ state'.explorer.selected_note >= 0

\* C23: opening a note rebuilds the document and drops the edit state of the
\* note shown before: content and content_original are the text read for the
\* opened note, nodes are the parse of content, current_row is 0, dirty and
\* modified are false, and the outline is built from the new nodes.
C23_OpenDiscardsEdits ==
    [][OpensNote =>
           LET e == state'.note_editor
           IN  /\ state'.selected_note.name = state'.explorer.selected_note
               /\ state'.selected_note.content \in {disk[state'.selected_note.name], <<>>}
               /\ e.content = state'.selected_note.content
               /\ e.content_original = e.content
               /\ e.path = state'.selected_note.name
               /\ e.nodes = from_str(e.content)
               /\ e.current_row = 0
               /\ ~e.dirty
               /\ ~e.modified
               /\ state'.outline.items = OutlineItems(e.nodes)]_vars

\* A note is opened again after it was edited and saved with another text.
C23_Witness ==
    /\ last_msg = Msg("Explorer", "Open")
    /\ state.explorer.selected_note >= 0
    /\ state.note_editor.path >= 0
    /\ state.note_editor.content = disk[state.note_editor.path]
    /\ disk[state.note_editor.path] # NoteText(state.note_editor.path)

\* C24: with experimental editing disabled the editor is in Read mode in every
\* reachable state, and no message of the editor changes content.
C24_DisabledStaysRead ==
    /\ [](~experimental_editor => state.note_editor.mode = "Read")
    /\ [][~experimental_editor /\ last_msg'.pane = "NoteEditor" /\ keys_read' = keys_read + 1
              => state'.note_editor.content = state.note_editor.content]_vars

\* Editing is disabled, a note is open, and a message that would change the
\* mode of an enabled editor was applied.
C24_Witness ==
    /\ ~experimental_editor
    /\ state.note_editor.path >= 0
    /\ state.note_editor.content # <<>>
    /\ last_msg \in {Msg("NoteEditor", "EditMode"), Msg("NoteEditor", "ExitMode")}

\* The mode went from one value to another under a message.
ModeWent(from, to, msg) ==
    /\ state.note_editor.mode = from
    /\ state'.note_editor.mode = to
    /\ last_msg' = Msg("NoteEditor", msg)

\* C25: the mode changes only from Read to View on ExitMode, from View to Read
\* on ReadMode, from View or Read to Edit on EditMode and from Edit to View on
\* ExitMode; ReadMode in Edit mode leaves the mode at Edit, and the steps
\* between Read and View keep content, nodes and current_row.
C25_ModeTransitions ==
    [][/\ state'.note_editor.mode # state.note_editor.mode
            => \/ ModeWent("Read", "View", "ExitMode")
               \/ ModeWent("View", "Read", "ReadMode")
               \/ ModeWent("View", "Edit", "EditMode")
               \/ ModeWent("Read", "Edit", "EditMode")
               \/ ModeWent("Edit", "View", "ExitMode")
       /\ ModeWent("Read", "View", "ExitMode") \/ ModeWent("View", "Read", "ReadMode")
            => /\ state'.note_editor.content = state.note_editor.content
               /\ state'.note_editor.nodes = state.note_editor.nodes
               /\ state'.note_editor.current_row = state.note_editor.current_row]_vars

\* The step applies a key event of the editor that changes the buffer.
KeyChangesBuffer ==
    /\ keys_read' = keys_read + 1
    /\ last_msg'.pane = "NoteEditor"
    /\ last_msg'.msg = "KeyEvent"
    /\ state'.note_editor.text_buffer.lines # state.note_editor.text_buffer.lines

\* The step deletes inside the block: a delete with the cursor past the start
\* of the buffer.
DeletesInBlock ==
    /\ Applies("Delete")
    /\ state.note_editor.text_buffer.row # 0 \/ state.note_editor.text_buffer.col # 0

\* C26: dirty tells whether the buffer was changed since it was last
\* reconciled: a key event that changes the buffer, a delete inside the block
\* and a merge leave it true, and every reconciliation (ExitMode, a move across
\* a block boundary, a delete on a blank buffer at its start) leaves it false.
C26_DirtyTracksBuffer ==
    [][experimental_editor =>
           /\ KeyChangesBuffer \/ DeletesInBlock \/ Merges => state'.note_editor.dirty
           /\ Reconciles => ~state'.note_editor.dirty]_vars

\* The text of the buffer is the source text of the block the cursor is on,
\* the line feed that ends the block apart.
BufferHoldsBlock(e) == to_string(e.text_buffer) = WithoutFinalNL(BlockText(e))

\* The step moves current_row by navigation: a cursor move of the editor or
\* the outline's Select.
Navigates ==
    /\ keys_read' = keys_read + 1
    /\ last_msg' \in {Msg("NoteEditor", "CursorUp"), Msg("NoteEditor", "CursorDown"),
                      Msg("Outline", "Select")}
    /\ state'.note_editor.current_row # state.note_editor.current_row

\* C27: when navigation changes current_row the buffer is seeded again, so
\* that its text is the source text of the new current block.
C27_NavigationReseeds ==
    [][Navigates /\ HasNode(state'.note_editor)
           => BufferHoldsBlock(state'.note_editor)]_vars

\* The step crosses to the next block: CursorDown on the last line of the
\* buffer, with a block after the current one.
CrossesDown ==
    /\ Applies("CursorDown")
    /\ state.note_editor.text_buffer.row = LastRow(state.note_editor.text_buffer)
    /\ state.note_editor.current_row < Len(state.note_editor.nodes) - 1

\* The step crosses to the previous block: CursorUp on the first line of the
\* buffer, with a block before the current one.
CrossesUp ==
    /\ Applies("CursorUp")
    /\ state.note_editor.text_buffer.row = 0
    /\ state.note_editor.current_row > 0
    /\ HasNode(state.note_editor)

\* The step moves the cursor inside the block.
MovesInside ==
    \/ Applies("CursorDown")
           /\ state.note_editor.text_buffer.row < LastRow(state.note_editor.text_buffer)
    \/ Applies("CursorUp") /\ state.note_editor.text_buffer.row > 0

\* What a crossing leaves behind: the block that was left reconciled if it
\* was dirty, the buffer seeded from the new block, dirty cleared.
Crossed ==
    /\ state'.note_editor.content =
           IF state.note_editor.dirty THEN Spliced(state.note_editor)
           ELSE state.note_editor.content
    /\ state'.note_editor.nodes =
           IF state'.note_editor.content # state.note_editor.content
           THEN from_str(state'.note_editor.content)
           ELSE state.note_editor.nodes
    /\ HasNode(state'.note_editor)
    /\ BufferHoldsBlock(state'.note_editor)
    /\ ~state'.note_editor.dirty

\* C28: a move across a block boundary reconciles the block left if dirty is
\* set, moves current_row by exactly one in the direction of the move, seeds
\* the buffer from the new block, clears dirty and puts the cursor on the top
\* line going down and on the bottom line going up; a move inside a block
\* changes the cursor only.
C28_CrossingMovesOneBlock ==
    [][/\ CrossesDown
            => /\ Crossed
               /\ state'.note_editor.current_row = state.note_editor.current_row + 1
               /\ state'.note_editor.text_buffer.row = 0
       /\ CrossesUp
            => /\ Crossed
               /\ state'.note_editor.current_row = state.note_editor.current_row - 1
               /\ state'.note_editor.text_buffer.row = LastRow(state'.note_editor.text_buffer)
       /\ MovesInside
            => /\ state'.note_editor.text_buffer.lines = state.note_editor.text_buffer.lines
               /\ [state'.note_editor EXCEPT !.text_buffer = state.note_editor.text_buffer]
                      = state.note_editor]_vars

\* C28 as the code has it: going down, the end of the document is tested on
\* the nodes of the reconciled content.  current_row stays if it is the last
\* index of those nodes; otherwise it moves by one, or back to the last index
\* when the reconciliation left fewer blocks, and the cursor goes to the top
\* line.  The buffer is seeded from the block then at current_row; the rest is
\* as stated.
C28_CrossingMovesOrClamps ==
    [][/\ CrossesDown
            => /\ Crossed
               /\ IF state.note_editor.current_row = SatSub(Len(state'.note_editor.nodes), 1)
                  THEN state'.note_editor.current_row = state.note_editor.current_row
                  ELSE /\ state'.note_editor.current_row =
                              Min(state.note_editor.current_row + 1,
                                  Len(state'.note_editor.nodes) - 1)
                       /\ state'.note_editor.text_buffer.row = 0
       /\ CrossesUp
            => /\ Crossed
               /\ state'.note_editor.current_row = state.note_editor.current_row - 1
               /\ state'.note_editor.text_buffer.row = LastRow(state'.note_editor.text_buffer)
       /\ MovesInside
            => /\ state'.note_editor.text_buffer.lines = state.note_editor.text_buffer.lines
               /\ [state'.note_editor EXCEPT !.text_buffer = state.note_editor.text_buffer]
                      = state.note_editor]_vars

\* A move down crossed to block 1 and reconciled the dirty block it left.
C28_Witness ==
    /\ last_msg = Msg("NoteEditor", "CursorDown")
    /\ keys_read = 1
    /\ state.note_editor.current_row = 1
    /\ state.note_editor.modified
    /\ ~state.note_editor.dirty
    /\ state.note_editor.text_buffer.row = 0

\* The source text of block i (counted from 0) of the editor.
BlockTextAt(e, i) == Slice(e.content, e.nodes[i + 1].start, e.nodes[i + 1].end)

\* What a merge of block r into the block before it leaves behind.
Merged(r) ==
    LET e == state.note_editor
        after == state'.note_editor
    IN  /\ after.content = e.content
        /\ after.dirty
        /\ Len(after.nodes) = Len(e.nodes) - 1
        /\ after.nodes[r].start = e.nodes[r].start
        /\ after.nodes[r].end = e.nodes[r + 1].end
        /\ \A i \in 1..(r - 1) : after.nodes[i] = e.nodes[i]
        /\ \A i \in (r + 1)..Len(after.nodes) : after.nodes[i] = e.nodes[i + 1]
        /\ to_string(after.text_buffer)
               = BlockTextAt(e, r - 1) \o <<NL>> \o to_string(e.text_buffer)

\* C29: a delete at the start of a buffer that is not blank, on block r > 0,
\* leaves content unchanged and sets dirty; block r - 1 then runs from its old
\* start to the old end of block r, block r is gone, every other node is
\* unchanged, and the buffer holds the source text of the previous block, a
\* line feed and the text it held before.
C29_MergeFrame ==
    [][Applies("Delete")
           /\ experimental_editor
           /\ state.note_editor.text_buffer.row = 0
           /\ state.note_editor.text_buffer.col = 0
           /\ ~IsBlank(to_string(state.note_editor.text_buffer))
           /\ state.note_editor.current_row > 0
           => Merged(state.note_editor.current_row)]_vars

\* The step applies Delete at the start of a blank buffer.
DeletesOnBlank ==
    /\ Applies("Delete")
    /\ experimental_editor
    /\ state.note_editor.text_buffer.row = 0
    /\ state.note_editor.text_buffer.col = 0
    /\ IsBlank(to_string(state.note_editor.text_buffer))

\* C30: a Delete at the start of a blank buffer never merges: it reconciles
\* the current block, current_row stays, and nodes change only by the parse
\* of the reconciled content; so for the first block and for the later ones.
C30_BlankDeleteReconciles ==
    [][DeletesOnBlank =>
           LET e == state.note_editor
               after == state'.note_editor
           IN  /\ after.current_row = e.current_row
               /\ after.content = IF HasNode(e) THEN Spliced(e) ELSE e.content
               /\ after.nodes = IF after.content # e.content THEN from_str(after.content)
                                ELSE e.nodes]_vars

\* A Delete on a blank buffer reconciled a block after the first and changed
\* the document.
C30_Witness ==
    /\ last_msg = Msg("NoteEditor", "Delete")
    /\ keys_read = 1
    /\ state.note_editor.current_row > 0
    /\ state.note_editor.modified

\* The step types into the buffer in Edit mode: a key event, or a Delete with
\* the cursor past the start of the buffer.
Types ==
    /\ experimental_editor
    /\ state.note_editor.mode = "Edit"
    /\ keys_read' = keys_read + 1
    /\ last_msg'.pane = "NoteEditor"
    /\ last_msg'.msg = "KeyEvent" \/ DeletesInBlock

\* C31: typing does not parse: a key event or a Delete past the start of the
\* buffer, in Edit mode, changes the buffer, its cursor and dirty only;
\* content, content_original, nodes, current_row and modified stay.
C31_TypingKeepsDocument ==
    [][Types =>
           [state'.note_editor EXCEPT !.text_buffer = state.note_editor.text_buffer,
                                      !.dirty = state.note_editor.dirty]
               = state.note_editor]_vars

\* A key was typed into a block of a note and changed the buffer, and a Delete
\* inside the buffer followed.
C31_Witness ==
    /\ last_msg = Msg("NoteEditor", "Delete")
    /\ state.note_editor.mode = "Edit"
    /\ state.note_editor.dirty
    /\ state.note_editor.nodes = from_str(state.note_editor.content)
    /\ HasNode(state.note_editor)
    /\ ~state.note_editor.modified
    /\ to_string(state.note_editor.text_buffer) # WithoutFinalNL(BlockText(state.note_editor))

\* The step changes the nodes of the editor by a message of the editor or by
\* opening a note.
ChangesNodes ==
    /\ keys_read' = keys_read + 1
    /\ last_msg'.pane = "NoteEditor" \/ last_msg' = Msg("Explorer", "Open")
    /\ state'.note_editor.nodes # state.note_editor.nodes

\* C32: the outline is rebuilt whenever nodes change: after a message that
\* changes the nodes of the editor (a reconciliation on ExitMode or on a move
\* across a block boundary, a merge, the opening of a note) the entries of the
\* outline are those derived from the new nodes.
C32_OutlineFollowsNodes ==
    [][ChangesNodes => state'.outline.items = OutlineItems(state'.note_editor.nodes)]_vars

\* The step changes current_row by a message of the editor.
ChangesRow ==
    /\ keys_read' = keys_read + 1
    /\ last_msg'.pane = "NoteEditor"
    /\ state'.note_editor.current_row # state.note_editor.current_row

\* C33: the selection of the outline follows current_row: after a message of
\* the editor that changes current_row (a move across a block boundary, a
\* merge) the outline's selected entry is the one found for the new
\* current_row.
C33_SelectionFollowsRow ==
    [][ChangesRow =>
           state'.outline.selected
               = FindItem(state'.outline.items, state'.note_editor.current_row)]_vars

\* C34: an Exec command is followed by the explorer's Open exactly when its
\* program ran and the terminal was set up again; a Spawn command has no
\* follow-up; a template that expands to white space only starts no program
\* and has no follow-up; a program that cannot be started has no follow-up and
\* leaves the state of the application as it was.
C34_CommandFollowUp ==
    [][keys_read' = keys_read + 1 /\ last_msg'.pane \in {"Exec", "Spawn"} =>
           /\ last_msg'.pane = "Exec"
                  => (pending' = AppMsg("Explorer", "Open", None, NoArg)
                          <=> command'.started /\ command'.restored)
           /\ pending' \in {AppMsg("Explorer", "Open", None, NoArg), NoPending}
           /\ last_msg'.pane = "Spawn" => pending' = NoPending
           /\ IsBlank(command'.expanded)
                  => ~command'.ran.called /\ ~command'.started /\ pending' = NoPending
           /\ ~IsBlank(command'.expanded) => command'.ran.called
           /\ ~command'.started => pending' = NoPending /\ state' = state /\ disk' = disk]_vars

\* An Exec command ran a program with an argument and the explorer's Open
\* follows.
C34_Witness ==
    /\ last_msg.pane = "Exec"
    /\ command.started
    /\ command.restored
    /\ command.ran.arg # <<>>
    /\ pending = AppMsg("Explorer", "Open", None, NoArg)

\* The parts of the binding's key chord, in lower case.
ChordParts == split(to_lowercase(config.key), "+")

ModifierNames ==
    {<<"a", "l", "t">>, <<"c", "t", "r", "l">>, <<"c", "o", "n", "t", "r", "o", "l">>,
     <<"h", "y", "p", "e", "r">>, <<"m", "e", "t", "a">>, <<"s", "h", "i", "f", "t">>,
     <<"s", "u", "p", "e", "r">>}

\* A part before the last names no modifier.
UnknownModifier ==
    \E i \in 1..(Len(ChordParts) - 1) : ChordParts[i] # <<>> /\ ChordParts[i] \notin ModifierNames

\* "f" and a number that a function key can carry.
IsFunctionKey(p) ==
    /\ Len(p) > 1 /\ Head(p) = "f"
    /\ \A i \in 2..Len(p) : \E d \in 1..10 : Digits[d] = p[i]
    /\ DecimalValue(Tail(p)) <= 255

\* The last part is neither a character, nor a function key, nor a named key.
UnknownCode ==
    LET p == ChordParts[Len(ChordParts)]
    IN  Len(p) > 1 /\ ~IsFunctionKey(p) /\ p \notin NamedCodes

\* The command string is neither a word of the vocabulary nor an exec/spawn form.
InvalidCommand ==
    /\ ~(Len(config.command) = 1 /\ config.command[1] \in Vocabulary)
    /\ ~(Len(config.command) >= 1 /\ config.command[1] \in {"exec:", "spawn:"})

\* C35: a binding whose key chord names an unknown modifier or an unknown key
\* code, or whose command is neither in the vocabulary nor an exec/spawn form,
\* makes the load fail, and then the loop is never entered: the program stands
\* before run, is_running was never set, nothing was drawn, no key was read and
\* no message was applied.
C35_ConfigErrorAborts ==
    (config.loaded # "default" /\ (UnknownModifier \/ UnknownCode \/ InvalidCommand)) =>
        /\ config.loaded \in {"unread", "error"}
        /\ phase # "start" => config.loaded = "error"
        /\ phase \in {"start", "aborted"}
        /\ ~state.is_running
        /\ keys_read = 0
        /\ last_msg = NoMessage

C35_Witness ==
    /\ UnknownCode /\ ~UnknownModifier /\ ~InvalidCommand
    /\ Len(ChordParts) > 1
    /\ config.loaded = "error"
    /\ phase = "aborted"

\* The latest step applied this Splash message.
SplashApplies(msg) == keys_read' = keys_read + 1 /\ last_msg' = Msg("Splash", msg)

\* The latest step chose a vault in the vault selector.
SelectorChoosesVault ==
    /\ keys_read' = keys_read + 1
    /\ last_msg' = Msg("VaultSelectorModal", "Select")
    /\ state.vault_selector_modal.items > 0

\* C36: the splash is left only by choosing a vault. Splash Open with a vault
\* under the cursor hides the splash, makes Explorer the active pane and focuses
\* the explorer, so that active_component is Explorer unless another modal is
\* visible; Splash Open without a vault leaves the whole state as it is; Splash
\* Up and Down change neither the visibility nor active_pane.
C36_SplashExit ==
    [][/\ (state.splash_modal.visible /\ ~state'.splash_modal.visible) =>
              \/ SplashApplies("Open") /\ state.splash_modal.items > 0
              \/ SelectorChoosesVault
       /\ (SplashApplies("Open") /\ state.splash_modal.items > 0) =>
              /\ ~state'.splash_modal.visible
              /\ state'.active_pane = "Explorer"
              /\ state'.explorer.active
              /\ state'.explorer.open
              /\ (~state'.help_modal.visible /\ ~state'.vault_selector_modal.visible) =>
                     active_component(state') = "Explorer"
       /\ (SplashApplies("Open") /\ state.splash_modal.items = 0) =>
              /\ state' = state
              /\ state'.splash_modal.visible
       /\ (SplashApplies("Up") \/ SplashApplies("Down")) =>
              /\ state'.splash_modal.visible = state.splash_modal.visible
              /\ state'.active_pane = state.active_pane
      ]_vars

C36_Witness ==
    /\ last_msg = Msg("Splash", "Open")
    /\ keys_read = 2
    /\ ~state.splash_modal.visible
    /\ state.active_pane = "Explorer"
    /\ state.explorer.active
    /\ state.explorer.vault >= 0
    /\ active_component(state) = "Explorer"

\* The active flag of a background pane.
PaneActive(p) ==
    CASE p = "Explorer" -> state.explorer.active
      [] p = "NoteEditor" -> state.note_editor.active
      [] p = "Outline" -> state.outline.active

\* C37: the focus flags agree with the router: when active_pane is Explorer,
\* NoteEditor or Outline, that pane's active flag is set and the active flags of
\* the other two are not.
C37_FocusFlagsAgree ==
    state.active_pane \in Panes => \A p \in Panes : PaneActive(p) <=> p = state.active_pane

C37_Witness ==
    /\ last_msg.msg \in {"SwitchPaneNext", "SwitchPanePrevious"}
    /\ state.active_pane = "Outline"
    /\ state.note_editor.path >= 0
    /\ ~state.explorer.open
    /\ PaneActive("Outline") /\ ~PaneActive("Explorer") /\ ~PaneActive("NoteEditor")

\* C38: input focus never rests on a hidden pane: when active_pane is Explorer
\* the explorer is open, and when active_pane is Outline the outline is open.
C38_FocusOnOpenPane ==
    /\ state.active_pane = "Explorer" => state.explorer.open
    /\ state.active_pane = "Outline" => state.outline.open

\* C39: unsaved edits are not forgotten: outside Edit mode, a document that was
\* read from its file and whose content differs from the text of the file is
\* marked modified.
C39_UnsavedIsModified ==
    (/\ experimental_editor
     /\ state.note_editor.path >= 0
     /\ state.note_editor.content_original # <<>>
     /\ state.note_editor.mode \in {"View", "Read"}
     /\ state.note_editor.content # disk[state.note_editor.path]) =>
        state.note_editor.modified

\* The panes' focus and visibility flags and the router's pane.
PaneFlags(st) ==
    <<st.active_pane, st.explorer.open, st.explorer.active, st.outline.open,
      st.outline.active, st.note_editor.active>>

\* The state App::update returns for this NoteEditor message.
AfterEditorMessage(msg) == update(state, Msg("NoteEditor", msg), "ok", disk)

\* C40: Edit mode pins the focus: in Edit mode SwitchPaneNext,
\* SwitchPanePrevious, ToggleExplorer, ToggleOutline and Save change neither
\* active_pane nor a pane's open or active flag nor the file, and Edit mode is
\* left only by ExitMode or by opening a note.
C40_EditPinsFocus ==
    /\ []((experimental_editor /\ state.note_editor.mode = "Edit") =>
             \A msg \in {"SwitchPaneNext", "SwitchPanePrevious", "ToggleExplorer",
                         "ToggleOutline", "Save"} :
                /\ PaneFlags(AfterEditorMessage(msg)) = PaneFlags(state)
                /\ AfterEditorMessage(msg).note_editor.mode = "Edit")
    /\ [][(state.note_editor.mode = "Edit" /\ Applies("Save")) =>
             /\ disk' = disk
             /\ PaneFlags(state') = PaneFlags(state)]_vars
    /\ [][(state.note_editor.mode = "Edit" /\ state'.note_editor.mode # "Edit") =>
             Applies("ExitMode") \/ OpensNote]_vars

====
